---- MODULE Spec2Model ----
(***************************************************************************)
(* State-machine model of the ticker-scoring, aggregation, dedup and       *)
(* insight-lifecycle code of the dashboard pipeline                        *)
(* (src/pipeline/db_manager.py, auto_pipeline.py, analyze_transcript.py).  *)
(*                                                                         *)
(* Numbers.  weighted_score and total_score are REAL in the database.      *)
(* They are kept here as exact integers in units of 1/400: the type        *)
(* weight is counted in quarters (2.0 = 8, 1.5 = 6, 0.5 = 2) and the       *)
(* conviction multiplier in hundredths (1 + c/100 = (100 + c)/100), so     *)
(* 72.0 is 28800 and 7.5 is 3000.  Binary floating-point rounding of the   *)
(* products and of SUM() is outside the model.                             *)
(*                                                                         *)
(* Dates are day numbers; a larger number is a later day.                  *)
(***************************************************************************)
EXTENDS Integers, Sequences, FiniteSets, TLC

VARIABLES
    ticker_mentions,   \* table ticker_mentions, in rowid (insertion) order
    daily_scores,      \* table daily_scores, one row per (ticker, date)
    agg_runs,          \* history: aggregate_scores runs since the last mention
                       \* write (counted up to 2)
    today,             \* date.today() / date('now')
    tie_order,         \* the engine's order among rows equal under ORDER BY
    inbox,             \* the newsletter JSON files of pipeline/inbox
    newsletters,       \* table newsletters, in rowid order
    podcast_episodes,  \* table podcast_episodes, in rowid order
    processed_markers, \* stems with a .processed marker file
    latest_insights,   \* table latest_insights, in rowid order
    last_returned,     \* history: the promotion call that returned last, with
                       \* the numbers of rows it inserted and archived
    promoted_since,    \* history: ids of the insights inserted since the last
                       \* archival step ran
    suggested_terms,   \* table suggested_terms, in rowid order
    definitions,       \* table definitions, in rowid order
    overton_terms,     \* table overton_terms, in rowid order
    last_curation,     \* the dict auto_curate_terms.main() returned last
    last_read,         \* the value the last read-only query returned
    promo,             \* the promotion call in progress between two of its
                       \* transactions: its remaining candidates and count
    last_run,          \* the results dict of the last run of
                       \* auto_pipeline.main() and whether it notified
    agg_cycle,         \* the aggregate_scores call in progress between two
                       \* of its database statements: what it has read and
                       \* the rows of its open write transaction
    scan_state         \* what extract_terms_from_content finds in the
                       \* summaries and previews of the last 7 days, source
                       \* by source, and whether a scan has run over it

scoreVars == <<ticker_mentions, daily_scores, agg_runs>>
engineVars == <<today, tie_order>>
newsletterVars == <<inbox, newsletters>>
episodeVars == <<podcast_episodes, processed_markers>>
insightVars == <<latest_insights, last_returned, promoted_since>>

termVars == <<suggested_terms, definitions, overton_terms, last_curation>>
runVars == <<last_read, promo, last_run, agg_cycle, scan_state>>
vars == <<scoreVars, engineVars, newsletterVars, episodeVars, insightVars,
          termVars, runVars>>

(***************************************************************************)
(* Generic helpers                                                         *)
(***************************************************************************)
Range(s) == {s[i] : i \in DOMAIN s}

Min(a, b) == IF a <= b THEN a ELSE b

RECURSIVE SumSeq(_)
SumSeq(s) == IF s = <<>> THEN 0 ELSE Head(s) + SumSeq(Tail(s))

RECURSIVE SumFun(_, _)
SumFun(f, S) ==
    IF S = {} THEN 0
    ELSE LET x == CHOOSE y \in S : TRUE IN f[x] + SumFun(f, S \ {x})

CountSeq(s, Test(_)) == Len(SelectSeq(s, Test))

\* Position of x in the sequence s (0 when absent).
IndexOf(s, x) ==
    IF x \in Range(s) THEN CHOOSE i \in DOMAIN s : s[i] = x ELSE 0

\* All orderings of the finite set S, as sequences without repetition.
Orderings(S) ==
    {s \in [1..Cardinality(S) -> S] : \A i, j \in DOMAIN s : i # j => s[i] # s[j]}

\* Text is a sequence of characters; Prefix(s, n) is the slice s[:n].
Prefix(s, n) == SubSeq(s, 1, Min(n, Len(s)))

(***************************************************************************)
(* Scoring engine: DashboardDB.add_ticker_mention                          *)
(***************************************************************************)
PodcastBase == 20
NewsletterBase == 10

\* A type weight in quarters: Quarters(1, 2) is 1.5.
Quarters(whole, quarter) == 4 * whole + quarter

BaseWeight(source_type) ==
    IF source_type = "podcast" THEN PodcastBase ELSE NewsletterBase

TypeWeight(source_type, is_disruption_focused) ==
    IF source_type = "podcast" THEN Quarters(2, 0)
    ELSE IF is_disruption_focused THEN Quarters(1, 2) ELSE Quarters(0, 2)

\* conviction_mult = 1.0 + conviction_score / 100.0, in hundredths.
ConvictionMult(conviction_score) == 100 + conviction_score

\* The multiplier taken from the magnitude of the conviction score.
WeightedScoreOfMagnitude(source_type, conviction_score, is_disruption_focused) ==
    BaseWeight(source_type) * TypeWeight(source_type, is_disruption_focused)
        * (100 + (IF conviction_score < 0 THEN 0 - conviction_score
                                           ELSE conviction_score))

\* weighted = base * weight * conviction_mult, in units of 1/400.
WeightedScore(source_type, conviction_score, is_disruption_focused) ==
    BaseWeight(source_type) * TypeWeight(source_type, is_disruption_focused)
        * ConvictionMult(conviction_score)

\* A score of `whole` plus `hundredths`/100 in the model's unit of 1/400.
Score(whole, hundredths) == 400 * whole + 4 * hundredths

\* The TickerMention dataclass with the defaults of its declaration.
TickerMention(ticker, source_type, source_name, episode_title, conviction_score, sentiment, timeframe, is_disruption_focused) ==
    [ticker |-> ticker, source_type |-> source_type,
     source_name |-> source_name, episode_title |-> episode_title,
     conviction_score |-> conviction_score,
     sentiment |-> sentiment, timeframe |-> timeframe,
     is_disruption_focused |-> is_disruption_focused]

\* The row INSERTed for a mention; mention_date takes the column default,
\* the time of the insert.
MentionRow(m, d) ==
    [ticker |-> m.ticker, source_type |-> m.source_type,
     source_name |-> m.source_name, episode_title |-> m.episode_title,
     conviction_score |-> m.conviction_score,
     sentiment |-> m.sentiment, timeframe |-> m.timeframe,
     is_disruption_focused |-> m.is_disruption_focused,
     weighted_score |-> WeightedScore(m.source_type, m.conviction_score,
                                      m.is_disruption_focused),
     mention_date |-> d]

InsertMentions(tbl, ms, d) ==
    tbl \o [i \in DOMAIN ms |-> MentionRow(ms[i], d)]

(***************************************************************************)
(* Daily aggregator: DashboardDB.get_top_tickers                           *)
(***************************************************************************)
TopLimit == 30

\* WHERE date(mention_date) = ?
MentionsOn(tbl, d) == SelectSeq(tbl, LAMBDA r : r.mention_date = d)

\* The rows of one GROUP BY ticker group, in rowid order.
TickerGroup(tbl, d, t) == SelectSeq(MentionsOn(tbl, d), LAMBDA r : r.ticker = t)

\* One result row of the GROUP BY: SUM, the two COUNT(CASE ...),
\* COUNT(DISTINCT source_name) and AVG(conviction_score), the average kept
\* as the pair (sum, count).
TickerAggregate(tbl, d, t) ==
    LET g == TickerGroup(tbl, d, t) IN
    [ticker |-> t,
     total_score |-> SumSeq([i \in DOMAIN g |-> g[i].weighted_score]),
     podcast_count |-> CountSeq(g, LAMBDA r : r.source_type = "podcast"),
     newsletter_count |-> CountSeq(g, LAMBDA r : r.source_type = "newsletter"),
     unique_sources |-> Cardinality({g[i].source_name : i \in DOMAIN g}),
     conviction_sum |-> SumSeq([i \in DOMAIN g |-> g[i].conviction_score]),
     conviction_n |-> Len(g)]

\* ORDER BY total_score DESC names no second key: rows with equal
\* total_score come out in the engine's order, tie_order.
OrderedBefore(a, b, order) ==
    \/ a.total_score > b.total_score
    \/ /\ a.total_score = b.total_score
       /\ IndexOf(order, a.ticker) < IndexOf(order, b.ticker)

GetTopTickers(tbl, d, limit, order) ==
    LET present == {r.ticker : r \in Range(MentionsOn(tbl, d))}
        groups == SelectSeq(order, LAMBDA t : t \in present)
        rows == [i \in DOMAIN groups |-> TickerAggregate(tbl, d, groups[i])]
        sorted == SortSeq(rows, LAMBDA a, b : OrderedBefore(a, b, order))
    IN SubSeq(sorted, 1, Min(limit, Len(sorted)))

(***************************************************************************)
(* Daily aggregator: aggregate_scores                                      *)
(***************************************************************************)
\* The buckets applied to the sum of the conviction scores, not their mean.
ConvictionLevelOfSum(conviction_sum, conviction_n) ==
    LET s == IF conviction_sum = 0 THEN 50 ELSE conviction_sum IN
    IF s >= 70 THEN "high"
    ELSE IF s >= 40 THEN "medium"
    ELSE "low"

\* avg_conviction = row.get('avg_conviction', 50) or 50, then the buckets.
\* The average is sum/n; "or 50" replaces an average of 0 by 50.
ConvictionLevel(conviction_sum, conviction_n) ==
    LET s == IF conviction_sum = 0 THEN 50 * conviction_n ELSE conviction_sum IN
    IF s >= 70 * conviction_n THEN "high"
    ELSE IF s >= 40 * conviction_n THEN "medium"
    ELSE "low"

\* sentiment_by_ticker[t]: sentiment -> COUNT(*) of the GROUP BY ticker, sentiment.
SentimentCounts(tbl, d, t) ==
    LET g == TickerGroup(tbl, d, t) IN
    [s \in {g[i].sentiment : i \in DOMAIN g} |->
        CountSeq(g, LAMBDA r : r.sentiment = s)]

DictGet(dict, key, default) == IF key \in DOMAIN dict THEN dict[key] ELSE default

ContrarianSignal(sentiment_counts) ==
    LET bullish == DictGet(sentiment_counts, "bullish", 0)
        bearish == DictGet(sentiment_counts, "bearish", 0)
        total == SumFun(sentiment_counts, DOMAIN sentiment_counts)
    IN IF total >= 3 /\ bearish > bullish THEN "contrarian"
       ELSE IF total >= 3 /\ bullish > bearish * 2 THEN "crowded"
       ELSE "neutral"

\* Binary collation order of the timeframe values ("" stands for an empty or
\* NULL timeframe): the order in which GROUP BY ticker, timeframe emits the
\* groups of one ticker.
TimeframeCollation == <<"", "long_term", "medium_term", "short_term", "unspecified">>

\* timeframe_by_ticker[t] as the dict is filled: the (timeframe, count) items
\* in the order of the query's rows.
TimeframeItemsByFirstSeen(tbl, d, t) ==
    LET g == TickerGroup(tbl, d, t)
        firsts == SelectSeq([i \in DOMAIN g |-> i],
                      LAMBDA i : \A j \in 1..(i - 1) : g[j].timeframe # g[i].timeframe)
    IN [k \in DOMAIN firsts |->
          [timeframe |-> g[firsts[k]].timeframe,
           count |-> CountSeq(g, LAMBDA r : r.timeframe = g[firsts[k]].timeframe)]]

TimeframeItems(tbl, d, t) ==
    LET g == TickerGroup(tbl, d, t)
        present == {g[i].timeframe : i \in DOMAIN g}
        keys == SelectSeq(TimeframeCollation, LAMBDA x : x \in present)
    IN [k \in DOMAIN keys |->
          [timeframe |-> keys[k],
           count |-> CountSeq(g, LAMBDA r : r.timeframe = keys[k])]]

\* max(timeframe_counts.items(), key=lambda x: x[1]): the first item with
\* the largest count; an empty timeframe reads 'unspecified'.
MostCommonTimeframe(items) ==
    IF items = <<>> THEN "unspecified"
    ELSE LET best == CHOOSE i \in DOMAIN items :
                        /\ \A j \in DOMAIN items : items[j].count <= items[i].count
                        /\ \A j \in 1..(i - 1) : items[j].count < items[i].count
         IN IF items[best].timeframe # "" THEN items[best].timeframe
            ELSE "unspecified"

\* The DailyScore built for the i-th row of get_top_tickers.
BuildScore(row, i, sentiment_counts, timeframe_items, d) ==
    [ticker |-> row.ticker,
     date |-> d,
     total_score |-> row.total_score,
     podcast_mentions |-> row.podcast_count,
     newsletter_mentions |-> row.newsletter_count,
     disruption_signals |-> 0,
     unique_sources |-> row.unique_sources,
     conviction_level |-> ConvictionLevel(row.conviction_sum, row.conviction_n),
     contrarian_signal |-> ContrarianSignal(sentiment_counts),
     timeframe |-> MostCommonTimeframe(timeframe_items),
     rank |-> i]

\* The list `scores` of aggregate_scores for date d.
ComputeScores(tbl, d, order) ==
    LET top == GetTopTickers(tbl, d, TopLimit, order) IN
    [i \in DOMAIN top |->
        BuildScore(top[i], i,
                   SentimentCounts(tbl, d, top[i].ticker),
                   TimeframeItems(tbl, d, top[i].ticker), d)]

(***************************************************************************)
(* DashboardDB.save_daily_scores                                           *)
(***************************************************************************)
\* daily_scores is unique on (ticker, date).
SameKey(a, b) == a.ticker = b.ticker /\ a.date = b.date

\* An upsert that adds the new total_score to the stored one.
SaveDailyScoresAdding(table, scores) ==
    {r \in table : \A i \in DOMAIN scores : ~SameKey(r, scores[i])}
        \cup {[scores[i] EXCEPT !.total_score =
                   @ + SumFun([r \in {q \in table : SameKey(q, scores[i])} |->
                                  r.total_score],
                              {q \in table : SameKey(q, scores[i])})] :
               i \in DOMAIN scores}

\* INSERT OR REPLACE of every score in one transaction: a stored row with
\* the key of a new row is replaced by it, every other row stays.
SaveDailyScores(table, scores) ==
    {r \in table : \A i \in DOMAIN scores : ~SameKey(r, scores[i])}
        \cup Range(scores)

(***************************************************************************)
(* Actions of the scoring subsystem                                        *)
(***************************************************************************)
\* db.add_ticker_mention(mention)
AddTickerMention(m) ==
    /\ ticker_mentions' = InsertMentions(ticker_mentions, <<m>>, today)
    /\ agg_runs' = 0
    /\ UNCHANGED <<daily_scores, engineVars, newsletterVars, episodeVars,
                   insightVars>>
    /\ UNCHANGED <<termVars, runVars>>

\* aggregate_scores()
AggregateScores ==
    /\ daily_scores' =
          SaveDailyScores(daily_scores,
                          ComputeScores(ticker_mentions, today, tie_order))
    /\ agg_runs' = Min(agg_runs + 1, 2)
    /\ UNCHANGED <<ticker_mentions, engineVars, newsletterVars, episodeVars,
                   insightVars>>
    /\ UNCHANGED <<termVars, runVars>>

(***************************************************************************)
(* Newsletter import: save_email (ingest.py) and import_newsletters        *)
(***************************************************************************)
DisruptionKeywords ==
    {"disruption", "disruptive", "paradigm shift", "game changer",
     "breakthrough", "transformation", "revolutionary", "inflection point"}

SubjectLimit == 200
MentionTitleLimit == 100

PreviewLimit == 500

\* A JSON file of pipeline/inbox.  date is the day of the message's Date
\* header (0: no parsable date); content_len is the length of the body;
\* `phrases` is the set of phrases that occur in the lower-cased subject and
\* content preview; extracted_tickers is a list without repetition.
InboxFile(name, sender, subject, date, content_len, phrases, extracted_tickers) ==
    [name |-> name, sender |-> sender, subject |-> subject, date |-> date,
     content_len |-> content_len, phrases |-> phrases,
     extracted_tickers |-> extracted_tickers]

\* is_disruption = any(kw in content.lower() for kw in disruption_keywords)
IsDisruption(f) == \E kw \in DisruptionKeywords : kw \in f.phrases

\* The number of disruption keywords found in the text of f.
DisruptionMatches(f) == Cardinality(DisruptionKeywords \cap f.phrases)

\* source_weight = min(1.5, 0.5 + disruption_matches * 0.25), in quarters.
GradedSourceWeight(disruption_matches) ==
    Min(Quarters(1, 2), Quarters(0, 2) + disruption_matches)

\* SELECT id FROM newsletters WHERE subject = ? AND sender = ?
NewsletterExists(tbl, subject, sender) ==
    \E i \in DOMAIN tbl : tbl[i].subject = subject /\ tbl[i].sender = sender

NewsletterRow(f, id) ==
    [id |-> id, sender |-> f.sender,
     subject |-> Prefix(f.subject, SubjectLimit),
     received_date |-> f.date, extracted_tickers |-> f.extracted_tickers,
     content_preview_len |-> Min(f.content_len, PreviewLimit),
     is_processed |-> TRUE, disruption_keywords_found |-> IsDisruption(f),
     added_to_site |-> FALSE]

\* The mentions written for the tickers of f, with the dataclass defaults.
NewsletterMentions(f) ==
    [i \in DOMAIN f.extracted_tickers |->
        TickerMention(f.extracted_tickers[i], "newsletter", f.sender,
                      Prefix(f.subject, MentionTitleLimit), 0, "neutral",
                      "unspecified", IsDisruption(f))]

\* One pass of the loop body over file f; st holds both tables and the
\* count of imported files.
ImportFile(st, f, d) ==
    IF NewsletterExists(st.newsletters, Prefix(f.subject, SubjectLimit), f.sender)
    THEN st
    ELSE [newsletters |->
              Append(st.newsletters, NewsletterRow(f, Len(st.newsletters) + 1)),
          ticker_mentions |->
              InsertMentions(st.ticker_mentions, NewsletterMentions(f), d),
          imported |-> st.imported + 1]

RECURSIVE ImportFiles(_, _, _)
ImportFiles(st, files, d) ==
    IF files = <<>> THEN st
    ELSE ImportFiles(ImportFile(st, Head(files), d), Tail(files), d)

\* save_email(msg_data): a fetched message lands in the inbox directory.
SaveEmail(f) ==
    /\ \A g \in inbox : g.name # f.name
    /\ inbox' = inbox \cup {f}
    /\ UNCHANGED <<newsletters, scoreVars, engineVars, episodeVars, insightVars>>
    /\ UNCHANGED <<termVars, runVars>>

\* import_newsletters(): every inbox file, in the order glob yields them.
ImportNewsletters ==
    \E files \in Orderings(inbox) :
        LET st == ImportFiles([newsletters |-> newsletters,
                               ticker_mentions |-> ticker_mentions,
                               imported |-> 0], files, today)
        IN /\ newsletters' = st.newsletters
           /\ ticker_mentions' = st.ticker_mentions
           /\ agg_runs' = IF st.ticker_mentions = ticker_mentions
                          THEN agg_runs ELSE 0
           /\ UNCHANGED <<inbox, daily_scores, engineVars, episodeVars,
                          insightVars>>
           /\ UNCHANGED <<termVars, runVars>>

(***************************************************************************)
(* Transcript ingest: analyze_transcript.py                                *)
(***************************************************************************)
MinTranscriptLen == 500
FirstLineLimit == 100
FuzzyTitleLen == 50

\* LOWER() on one character of the model's alphabet.
LowerChar(c) ==
    CASE c = "A" -> "a"
      [] c = "B" -> "b"
      [] c = "E" -> "e"
      [] c = "F" -> "f"
      [] c = "P" -> "p"
      [] c = "S" -> "s"
      [] c = "X" -> "x"
      [] c = "Y" -> "y"
      [] OTHER -> c

Lower(s) == [i \in DOMAIN s |-> LowerChar(s[i])]

\* A transcript file with its sidecar: stem of the file name, length of the
\* content, the podcast name parse_podcast_info derives, the first line of
\* the content, and rss_guid / published_date of the sidecar ("" and 0 when
\* absent).
TranscriptFile(stem, length, podcast_name, first_line, rss_guid, published_date) ==
    [stem |-> stem, length |-> length, podcast_name |-> podcast_name,
     first_line |-> first_line, rss_guid |-> rss_guid,
     published_date |-> published_date]

\* The answer of the AI analysis; NoAnalysis is the failed analysis (None).
NoAnalysis == [ok |-> FALSE]

Analysis(episode_title, episode_date, mentions) ==
    [ok |-> TRUE, episode_title |-> episode_title,
     episode_date |-> episode_date, ticker_mentions |-> mentions]

\* is_transcript_processed(transcript_path)
IsTranscriptProcessed(f) == f.stem \in processed_markers

\* episode_exists_in_db(db, podcast_name, episode_title, rss_guid)
EpisodeExistsByTitle(tbl, podcast_name, episode_title, rss_guid) ==
    \/ \E i \in DOMAIN tbl :
          /\ tbl[i].podcast_name = podcast_name
          /\ tbl[i].episode_title = episode_title
    \/ \E i \in DOMAIN tbl :
          /\ tbl[i].podcast_name = podcast_name
          /\ Lower(Prefix(tbl[i].episode_title, FuzzyTitleLen))
                = Lower(Prefix(episode_title, FuzzyTitleLen))

EpisodeExistsInDb(tbl, podcast_name, episode_title, rss_guid) ==
    \/ /\ rss_guid # ""
       /\ \E i \in DOMAIN tbl : tbl[i].rss_guid = rss_guid
    \/ \E i \in DOMAIN tbl :
          /\ tbl[i].podcast_name = podcast_name
          /\ tbl[i].episode_title = episode_title
    \/ \E i \in DOMAIN tbl :
          /\ tbl[i].podcast_name = podcast_name
          /\ Lower(Prefix(tbl[i].episode_title, FuzzyTitleLen))
                = Lower(Prefix(episode_title, FuzzyTitleLen))

\* The episode date: the AI's date when it parses (0: it does not), else
\* today; the sidecar's published_date replaces it when present.
EpisodeDate(f, analysis, d) ==
    IF f.published_date # 0 THEN f.published_date
    ELSE IF analysis.episode_date # 0 THEN analysis.episode_date
    ELSE d

\* The row after add_podcast_episode, the UPDATE of rss_guid and
\* published_date, and the is_processed flag of mark_transcript_processed.
EpisodeRow(f, analysis, id, d) ==
    [id |-> id, podcast_name |-> f.podcast_name,
     episode_title |-> analysis.episode_title,
     episode_date |-> EpisodeDate(f, analysis, d),
     transcript_path |-> f.stem, rss_guid |-> f.rss_guid,
     published_date |-> f.published_date, is_processed |-> TRUE]

\* The TickerMention objects built from the analysis.
\* An entry of ticker_mentions on which TickerMention(...) or
\* add_ticker_mention raises (a null context, a conviction_score that is
\* no number): the except clause of the loop reports it and goes on.
MalformedMention(ticker) == [ticker |-> ticker, raises |-> TRUE]

\* An entry of ticker_mentions that is no JSON object: tm.get raises in
\* the loop body and again in the except clause that reports it, so the
\* exception leaves process_transcript_file.
NotAnObject == [not_an_object |-> TRUE]

Raises(tm) == "raises" \in DOMAIN tm
LeavesFunction(tm) == "not_an_object" \in DOMAIN tm

\* The entries the loop reaches: all of them, or those before the first
\* one that is no object.
ReachedMentions(mentions) ==
    IF \E i \in DOMAIN mentions : LeavesFunction(mentions[i])
    THEN SubSeq(mentions, 1,
                (CHOOSE i \in DOMAIN mentions :
                    /\ LeavesFunction(mentions[i])
                    /\ \A j \in 1..(i - 1) : ~LeavesFunction(mentions[j])) - 1)
    ELSE mentions

\* The mentions the loop stores: the entries it reaches that do not raise.
EpisodeMentions(f, analysis) ==
    LET Stored(tm) == ~Raises(tm)
        stored == SelectSeq(ReachedMentions(analysis.ticker_mentions), Stored)
    IN [i \in DOMAIN stored |->
           TickerMention(stored[i].ticker, "podcast",
                         f.podcast_name, analysis.episode_title,
                         stored[i].conviction_score,
                         stored[i].sentiment,
                         stored[i].timeframe,
                         stored[i].is_disruption_focused)]

\* mark_transcript_processed(transcript_path, -1): the marker file only.
MarkDuplicate(f) ==
    /\ processed_markers' = processed_markers \cup {f.stem}
    /\ UNCHANGED <<podcast_episodes, scoreVars>>

\* The path of process_transcript_file that stores the episode.
StoreEpisode(f, analysis) ==
    /\ podcast_episodes' =
          Append(podcast_episodes,
                 EpisodeRow(f, analysis, Len(podcast_episodes) + 1, today))
    /\ ticker_mentions' =
          InsertMentions(ticker_mentions, EpisodeMentions(f, analysis), today)
    /\ agg_runs' = IF EpisodeMentions(f, analysis) = <<>> THEN agg_runs ELSE 0
    /\ processed_markers' =
          IF \E i \in DOMAIN analysis.ticker_mentions :
                LeavesFunction(analysis.ticker_mentions[i])
          THEN processed_markers
          ELSE processed_markers \cup {f.stem}
    /\ UNCHANGED daily_scores

\* process_transcript_file(transcript_path, client_info, db), where analysis
\* is what analyze_transcript_with_ai returns in this call.
ProcessTranscriptFile(f, analysis) ==
    /\ IF IsTranscriptProcessed(f) \/ f.length < MinTranscriptLen
       THEN UNCHANGED <<episodeVars, scoreVars>>
       ELSE IF EpisodeExistsInDb(podcast_episodes, f.podcast_name,
                                 Prefix(f.first_line, FirstLineLimit), f.rss_guid)
       THEN MarkDuplicate(f)
       ELSE IF ~analysis.ok
       THEN UNCHANGED <<episodeVars, scoreVars>>
       ELSE IF EpisodeExistsInDb(podcast_episodes, f.podcast_name,
                                 analysis.episode_title, f.rss_guid)
       THEN MarkDuplicate(f)
       ELSE StoreEpisode(f, analysis)
    /\ UNCHANGED <<engineVars, newsletterVars, insightVars>>
    /\ UNCHANGED <<termVars, runVars>>

(***************************************************************************)
(* Insight promotion: promote_episodes_to_insights and                     *)
(* promote_newsletters_to_insights (auto_pipeline.py), and the main page   *)
(* query DashboardDB.get_main_page_content.  An archived_date of 0 and an  *)
(* archived_reason or podcast_episode_id of "" / 0 stand for NULL.         *)
(***************************************************************************)
MainPageK == 8
PageLimit == 8
RecentDays == 730
MinNewsletterText == 100
InsightTitleLimit == 200
AutoArchiveReason == "Auto-archived: keep 8 most recent on main"

\* The row both promotions INSERT: display_on_main 1, display_order 0.
InsightRow(id, title, source_type, source_name, source_date, added_date, podcast_episode_id) ==
    [id |-> id, title |-> title, source_type |-> source_type,
     source_name |-> source_name, source_date |-> source_date,
     display_on_main |-> TRUE, display_order |-> 0,
     archived_date |-> 0, archived_reason |-> "",
     added_date |-> added_date, podcast_episode_id |-> podcast_episode_id]

\* SELECT id FROM latest_insights WHERE title = ?
TitleExists(tbl, title) == \E i \in DOMAIN tbl : tbl[i].title = title

\* ORDER BY pe.episode_date DESC, pe.id DESC
NewerEpisode(a, b) ==
    \/ a.episode_date > b.episode_date
    \/ a.episode_date = b.episode_date /\ a.id > b.id

\* The processed episodes without a latest_insights row, newest first.
EpisodeQueue(eps, tbl) ==
    LET linked == {tbl[j].podcast_episode_id : j \in DOMAIN tbl} \ {0}
        Pending(e) == e.is_processed /\ e.id \notin linked
    IN SortSeq(SelectSeq(eps, Pending), NewerEpisode)

\* episode_date when it is less than two years old, else today.
EpisodeSourceDate(ep, d) ==
    IF d - ep.episode_date < RecentDays THEN ep.episode_date ELSE d

\* The loop body without the duplicate guard: INSERT whatever the title.
PromoteEpisodeUnguarded(tbl, ep, d) ==
    Append(tbl, InsightRow(Len(tbl) + 1, ep.episode_title, "podcast",
                           ep.podcast_name, EpisodeSourceDate(ep, d), d,
                           ep.id))

\* One pass of the loop body: the duplicate guard on the title, then INSERT.
PromoteEpisode(tbl, ep, d) ==
    IF TitleExists(tbl, ep.episode_title) THEN tbl
    ELSE Append(tbl, InsightRow(Len(tbl) + 1, ep.episode_title, "podcast",
                                ep.podcast_name, EpisodeSourceDate(ep, d), d,
                                ep.id))

RECURSIVE PromoteEpisodes(_, _, _)
PromoteEpisodes(tbl, queue, d) ==
    IF queue = <<>> THEN tbl
    ELSE PromoteEpisodes(PromoteEpisode(tbl, Head(queue), d), Tail(queue), d)

\* ORDER BY source_date DESC, id DESC
MoreRecent(a, b) ==
    \/ a.source_date > b.source_date
    \/ a.source_date = b.source_date /\ a.id > b.id

\* WHERE display_on_main = 1 AND archived_date IS NULL
OnMainUnarchived(r) == r.display_on_main /\ r.archived_date = 0

\* main_ids[8:], the ids beyond the 8 most recent.
ToArchive(tbl) ==
    LET main_ids == SortSeq(SelectSeq(tbl, OnMainUnarchived), MoreRecent)
    IN {main_ids[i].id : i \in (MainPageK + 1)..Len(main_ids)}

\* The step that archives only the single oldest row when over capacity.
AutoArchiveOldest(tbl, d) ==
    LET main_ids == SortSeq(SelectSeq(tbl, OnMainUnarchived), MoreRecent)
        oldest == IF Len(main_ids) > MainPageK
                  THEN {main_ids[Len(main_ids)].id} ELSE {}
    IN [i \in DOMAIN tbl |->
           IF tbl[i].id \in oldest
           THEN [tbl[i] EXCEPT !.display_on_main = FALSE,
                               !.archived_date = d,
                               !.archived_reason = AutoArchiveReason]
           ELSE tbl[i]]

\* The step that recomputes display_on_main of every row from its rank:
\* the 8 most recent rows go on the main page, all others off it.
AutoArchiveRecomputing(tbl, d) ==
    LET ranked == SortSeq(tbl, MoreRecent)
        top == {ranked[i].id : i \in 1..Min(MainPageK, Len(ranked))}
    IN [i \in DOMAIN tbl |->
           IF tbl[i].id \in top
           THEN [tbl[i] EXCEPT !.display_on_main = TRUE]
           ELSE [tbl[i] EXCEPT !.display_on_main = FALSE,
                               !.archived_date = d,
                               !.archived_reason = AutoArchiveReason]]

\* The auto-archive step that ends promote_episodes_to_insights.
AutoArchive(tbl, d) ==
    [i \in DOMAIN tbl |->
        IF tbl[i].id \in ToArchive(tbl)
        THEN [tbl[i] EXCEPT !.display_on_main = FALSE,
                            !.archived_date = d,
                            !.archived_reason = AutoArchiveReason]
        ELSE tbl[i]]

\* promote_episodes_to_insights()
PromoteEpisodesToInsights ==
    /\ LET inserted == PromoteEpisodes(latest_insights,
                                       EpisodeQueue(podcast_episodes,
                                                    latest_insights),
                                       today)
       IN /\ latest_insights' = AutoArchive(inserted, today)
          /\ last_returned' =
                [call |-> "episodes",
                 promoted |-> Len(inserted) - Len(latest_insights),
                 archived |-> Cardinality(ToArchive(inserted))]
    /\ promoted_since' = {}
    /\ UNCHANGED <<scoreVars, engineVars, newsletterVars, episodeVars>>
    /\ UNCHANGED <<termVars, runVars>>

\* WHERE added_to_site = 0 AND is_processed = 1
PendingNewsletters(tbl) ==
    {tbl[i].id : i \in {j \in DOMAIN tbl :
                           ~tbl[j].added_to_site /\ tbl[j].is_processed}}

\* The length of the text of a newsletter: the content of the inbox file
\* with its subject when there is one, else the stored preview.
NewsletterTextLen(row, files) ==
    LET matching == {f \in files : Prefix(f.subject, SubjectLimit) = row.subject}
    IN IF matching # {} THEN (CHOOSE f \in matching : TRUE).content_len
       ELSE row.content_preview_len

\* The AI gave no usable answer: the subject stays the title.
NoAiTitle == <<>>

\* insight_title: the subject, or the first 200 characters of the AI's title.
NewsletterInsightTitle(row, ai_title) ==
    IF ai_title = NoAiTitle THEN row.subject
    ELSE Prefix(ai_title, InsightTitleLimit)

\* source_date: the day of received_date when it parses, else today.
NewsletterSourceDate(row, d) ==
    IF row.received_date # 0 THEN row.received_date ELSE d

\* One pass of the loop body over newsletter id; st holds both tables and
\* the ids of the insights inserted so far.
PromoteNewsletter(st, id, ai_title, files, d) ==
    LET row == st.newsletters[id]
        title == NewsletterInsightTitle(row, ai_title)
    IN IF NewsletterTextLen(row, files) < MinNewsletterText THEN st
       ELSE IF TitleExists(st.insights, title)
       THEN [st EXCEPT !.newsletters[id].added_to_site = TRUE]
       ELSE [insights |->
                 Append(st.insights,
                        InsightRow(Len(st.insights) + 1, title, "newsletter",
                                   row.sender, NewsletterSourceDate(row, d),
                                   d, 0)),
             newsletters |->
                 [st.newsletters EXCEPT ![id].added_to_site = TRUE],
             inserted |-> st.inserted \cup {Len(st.insights) + 1}]

RECURSIVE PromoteNewsletters(_, _, _, _, _)
PromoteNewsletters(st, queue, ai, files, d) ==
    IF queue = <<>> THEN st
    ELSE PromoteNewsletters(
             PromoteNewsletter(st, Head(queue), ai[Head(queue)], files, d),
             Tail(queue), ai, files, d)

\* promote_newsletters_to_insights().  rows is the result of the SELECT:
\* received_date holds the text of the Date header, so ORDER BY
\* received_date DESC is no order of days and any order can come out.
\* ai maps each row to the title the AI returns for it.
PromoteNewslettersToInsights(rows, ai) ==
    /\ rows \in Orderings(PendingNewsletters(newsletters))
    /\ LET st == PromoteNewsletters([insights |-> latest_insights,
                                     newsletters |-> newsletters,
                                     inserted |-> {}],
                                    rows, ai, inbox, today)
       IN /\ latest_insights' = st.insights
          /\ newsletters' = st.newsletters
          /\ promoted_since' = promoted_since \cup st.inserted
          /\ last_returned' = [call |-> "newsletters",
                               promoted |-> Cardinality(st.inserted),
                               archived |-> 0]
    /\ UNCHANGED <<inbox, scoreVars, engineVars, episodeVars>>
    /\ UNCHANGED <<termVars, runVars>>

\* ORDER BY li.display_order, li.source_date DESC; rows equal in both come
\* in the engine's order, by rowid forwards or backwards.
ShownBefore(a, b, engine_order) ==
    \/ a.display_order < b.display_order
    \/ a.display_order = b.display_order /\ a.source_date > b.source_date
    \/ /\ a.display_order = b.display_order
       /\ a.source_date = b.source_date
       /\ IF engine_order = "rowid" THEN a.id < b.id ELSE a.id > b.id

EngineOrders == {"rowid", "reverse"}

\* The 'insights' list of get_main_page_content().
GetMainPageContent(tbl, engine_order) ==
    LET OnMain(r) == r.display_on_main
        Before(a, b) == ShownBefore(a, b, engine_order)
        shown == SortSeq(SelectSeq(tbl, OnMain), Before)
    IN SubSeq(shown, 1, Min(PageLimit, Len(shown)))

(***************************************************************************)
(* Input universes                                                         *)
(***************************************************************************)
AllTickers == {"NVDA", "TSLA"}
SourceTypes == {"podcast", "newsletter"}
ConvictionRange == (0 - 100)..100

Title1 == <<"t", "1">>
Title2 == <<"t", "2">>
Title3 == <<"t", "3">>
Title4 == <<"t", "4">>

InitNewsletters ==
    /\ inbox = {}
    /\ newsletters = <<>>

InitEpisodes ==
    /\ podcast_episodes = <<>>
    /\ processed_markers = {}

\* No promotion call has run.
IdlePromotion ==
    /\ last_returned = [call |-> "none", promoted |-> 0, archived |-> 0]
    /\ promoted_since = {}

InitInsightsEmpty ==
    /\ latest_insights = <<>>
    /\ IdlePromotion

\* No curation run has returned.
NoCuration == [ran |-> FALSE]

InitTermsEmpty ==
    /\ suggested_terms = <<>>
    /\ definitions = <<>>
    /\ overton_terms = <<>>
    /\ last_curation = NoCuration

\* No read-only query has returned.
NoRead == [query |-> "none"]

\* No promotion call is in progress.
NoPromotion == [call |-> "none"]

\* main() has not run.
NoRun == [ran |-> FALSE]

\* No aggregate_scores call is in progress.
NoCycle == [pc |-> "idle"]

\* No content of the last 7 days is stored and no scan has run.
NoScan == [content |-> <<>>, scanned |-> FALSE]

InitRunIdle ==
    /\ last_read = NoRead
    /\ promo = NoPromotion
    /\ last_run = NoRun
    /\ agg_cycle = NoCycle
    /\ scan_state = NoScan

InitScoring ==
    /\ ticker_mentions = <<>>
    /\ daily_scores = {}
    /\ agg_runs = 0

(***************************************************************************)
(* SpecWeight: add_ticker_mention over every conviction score of the       *)
(* documented range, both source types and both disruption flags.          *)
(***************************************************************************)
MaxProbes == 1

WeightProbes ==
    {TickerMention("NVDA", ty, "src1", Title1, c, "neutral", "unspecified", f) :
        ty \in SourceTypes, c \in ConvictionRange, f \in BOOLEAN}

InitWeight ==
    /\ InitScoring
    /\ today = 1
    /\ tie_order = <<"NVDA", "TSLA">>
    /\ InitNewsletters
    /\ InitEpisodes
    /\ InitInsightsEmpty
    /\ InitTermsEmpty
    /\ InitRunIdle

NextWeight ==
    /\ Len(ticker_mentions) < MaxProbes
    /\ \E m \in WeightProbes : AddTickerMention(m)

SpecWeight == InitWeight /\ [][NextWeight]_vars

(***************************************************************************)
(* C5                                                                      *)
(***************************************************************************)
\* C5 (as stated): every stored mention's weighted_score grows strictly with
\* conviction_score at fixed source_type and disruption flag (the next higher
\* conviction_score always scores strictly more), and for every
\* conviction_score in -100..100 a podcast mention's weighted_score is
\* strictly greater than that of a newsletter mention with the same
\* conviction_score and disruption flag.
C5_AsStated ==
    \A i \in DOMAIN ticker_mentions :
        LET r == ticker_mentions[i] IN
        /\ r.conviction_score + 1 \in ConvictionRange =>
              WeightedScore(r.source_type, r.conviction_score + 1,
                            r.is_disruption_focused) > r.weighted_score
        /\ r.source_type = "podcast" =>
              r.weighted_score >
                  WeightedScore("newsletter", r.conviction_score,
                                r.is_disruption_focused)

\* C5 (amended): weighted_score grows strictly with conviction_score at fixed
\* source_type and disruption flag (the next higher conviction_score always
\* scores strictly more); a podcast mention's weighted_score is
\* strictly greater than the newsletter's for every conviction_score in
\* -99..100, and at conviction_score = -100 both are 0.
C5_WeightMonotone ==
    \A i \in DOMAIN ticker_mentions :
        LET r == ticker_mentions[i]
            nl == WeightedScore("newsletter", r.conviction_score,
                                r.is_disruption_focused)
        IN
        /\ r.conviction_score + 1 \in ConvictionRange =>
              WeightedScore(r.source_type, r.conviction_score + 1,
                            r.is_disruption_focused) > r.weighted_score
        /\ (r.source_type = "podcast" /\ r.conviction_score > 0 - 100) =>
              r.weighted_score > nl
        /\ (r.source_type = "podcast" /\ r.conviction_score = 0 - 100) =>
              (r.weighted_score = 0 /\ nl = 0)

\* A podcast mention of conviction -99 is stored with 20 * 2.0 * 0.01 = 0.40.
C5_Witness ==
    \E i \in DOMAIN ticker_mentions :
        /\ ticker_mentions[i].source_type = "podcast"
        /\ ticker_mentions[i].conviction_score = 0 - 99
        /\ ticker_mentions[i].weighted_score = Score(0, 40)

(***************************************************************************)
(* SpecScenarioA: the three mentions of Scenario A, written in any order   *)
(* and any number of times, and aggregated.                                *)
(***************************************************************************)
MaxScenarioMentions == 3

ScenarioA1 ==
    TickerMention("NVDA", "podcast", "src1", Title1, 80, "bullish", "long_term", FALSE)
ScenarioA2 ==
    TickerMention("NVDA", "podcast", "src2", Title2, 60, "bullish", "long_term", FALSE)
ScenarioA3 ==
    TickerMention("NVDA", "newsletter", "src3", Title3, 50, "neutral", "unspecified", FALSE)

ScenarioAInputs == {ScenarioA1, ScenarioA2, ScenarioA3}

InitScenarioA ==
    /\ InitScoring
    /\ today = 1
    /\ tie_order \in Orderings(AllTickers)
    /\ InitNewsletters
    /\ InitEpisodes
    /\ InitInsightsEmpty
    /\ InitTermsEmpty
    /\ InitRunIdle

NextScenarioA ==
    \/ /\ Len(ticker_mentions) < MaxScenarioMentions
       /\ \E m \in ScenarioAInputs : AddTickerMention(m)
    \/ AggregateScores

SpecScenarioA == InitScenarioA /\ [][NextScenarioA]_vars

\* The stored row of mention m, whatever its position.
StoredOnce(m) ==
    Cardinality({i \in DOMAIN ticker_mentions :
        /\ ticker_mentions[i].source_name = m.source_name
        /\ ticker_mentions[i].source_type = m.source_type
        /\ ticker_mentions[i].conviction_score = m.conviction_score}) = 1

\* The table holds exactly the three mentions of Scenario A.
IsScenarioA ==
    /\ Len(ticker_mentions) = 3
    /\ \A m \in ScenarioAInputs : StoredOnce(m)

StoredScoreOf(m) ==
    LET i == CHOOSE j \in DOMAIN ticker_mentions :
                 ticker_mentions[j].source_name = m.source_name
    IN ticker_mentions[i].weighted_score

\* C8: with exactly the two podcast mentions (conviction 80 and 60) and the
\* newsletter mention (conviction 50, no disruption) of one ticker stored, the
\* stored weighted scores are 72, 64 and 7.5, and once aggregate_scores has
\* run the ticker's row has total_score 143.5 and conviction_level 'medium'.
C8_ScenarioA ==
    IsScenarioA =>
        /\ StoredScoreOf(ScenarioA1) = Score(72, 0)
        /\ StoredScoreOf(ScenarioA2) = Score(64, 0)
        /\ StoredScoreOf(ScenarioA3) = Score(7, 50)
        /\ agg_runs >= 1 =>
              \E r \in daily_scores :
                  /\ r.ticker = "NVDA" /\ r.date = today
                  /\ r.total_score = Score(143, 50)
                  /\ r.conviction_level = "medium"
                  /\ \A q \in daily_scores : SameKey(q, r) => q = r

C8_Witness == IsScenarioA /\ agg_runs >= 1

(***************************************************************************)
(* SpecOrder: mentions that differ in source type, source, conviction,     *)
(* sentiment and timeframe, written in every order, and aggregated.        *)
(***************************************************************************)
MaxOrderMentions == 3

OrderInputs ==
    {TickerMention("NVDA", "podcast", "src1", Title1, 80, "bullish", "short_term", FALSE),
     TickerMention("NVDA", "podcast", "src2", Title2, 10, "bearish", "long_term", FALSE),
     TickerMention("NVDA", "newsletter", "src1", Title3, 0, "neutral", "", TRUE),
     TickerMention("NVDA", "newsletter", "src3", Title4, 0 - 50, "bearish", "medium_term", FALSE),
     TickerMention("TSLA", "podcast", "src1", Title1, 50, "bullish", "short_term", FALSE)}

NextOrder ==
    \/ /\ Len(ticker_mentions) < MaxOrderMentions
       /\ \E m \in OrderInputs : AddTickerMention(m)
    \/ AggregateScores

SpecOrder == InitScenarioA /\ [][NextOrder]_vars

\* The table tbl with its rows in every insertion order.
PermutedTables(tbl) ==
    {[i \in DOMAIN tbl |-> tbl[p[i]]] : p \in Orderings(DOMAIN tbl)}

\* The DailyScore fields computed per ticker (all but date and rank).
TickerFields(s) ==
    [ticker |-> s.ticker, total_score |-> s.total_score,
     podcast_mentions |-> s.podcast_mentions,
     newsletter_mentions |-> s.newsletter_mentions,
     unique_sources |-> s.unique_sources,
     conviction_level |-> s.conviction_level,
     contrarian_signal |-> s.contrarian_signal,
     timeframe |-> s.timeframe]

MaxMentions == 3

ScoreInputs ==
    {TickerMention(t, "podcast", src, Title1, 50, "bullish", "short_term", FALSE) :
        t \in AllTickers, src \in {"src1", "src2"}}
    \cup
    {TickerMention(t, "podcast", src, Title2, 0 - 25, "bearish", "long_term", FALSE) :
        t \in AllTickers, src \in {"src1", "src2"}}
    \cup
    {TickerMention(t, "newsletter", src, Title3, 0, "neutral", "unspecified", FALSE) :
        t \in AllTickers, src \in {"src1", "src2"}}

NextScore ==
    \/ /\ Len(ticker_mentions) < MaxMentions
       /\ \E m \in ScoreInputs : AddTickerMention(m)
    \/ AggregateScores

SpecScore == InitScenarioA /\ [][NextScore]_vars

\* C3: when aggregate_scores runs again for the same date with no mention
\* written since its last run, daily_scores is left exactly as it was: the
\* same rows with the same total_score, derived fields and ranks.
C3_Idempotent ==
    [][(agg_runs >= 1 /\ agg_runs' >= 1) => daily_scores' = daily_scores]_vars

\* Two tickers ranked, and aggregate_scores has run twice over the same mentions.
C3_Witness == agg_runs = 2 /\ Cardinality(daily_scores) = 2

\* The rows of today's date, all written by the last aggregation run.
RowsOfCycle == IF agg_runs >= 1 THEN {r \in daily_scores : r.date = today} ELSE {}

\* C6 (as stated): among the rows of one date written by an aggregation run,
\* ranks are pairwise distinct, a lower rank number never has a smaller
\* total_score, and among equal total_score the row with the larger
\* unique_sources has the lower rank number.
C6_AsStated ==
    \A r1, r2 \in RowsOfCycle :
        r1 # r2 =>
            /\ r1.rank # r2.rank
            /\ r1.rank < r2.rank => r1.total_score >= r2.total_score
            /\ (r1.total_score = r2.total_score
                    /\ r1.unique_sources > r2.unique_sources)
                  => r1.rank < r2.rank

(***************************************************************************)
(* SpecImport: newsletters with zero, one, two and five disruption         *)
(* keywords arrive in the inbox and import_newsletters runs at any time.   *)
(***************************************************************************)
MaxInbox == 3

Subject0 == <<"s", "0">>
Subject1 == <<"s", "1">>
Subject2 == <<"s", "2">>
\* A subject longer than the title column slice of a mention.
LongSubject == [i \in 1..(MentionTitleLimit + 20) |-> "x"]

ImportInputs ==
    {InboxFile("f0", "src1", Subject0, 1, 300, {"earnings"}, <<"NVDA">>),
     InboxFile("f1", "src1", Subject1, 1, 300, {"breakthrough"}, <<"TSLA">>),
     InboxFile("f2", "src2", Subject2, 1, 300, {"disruption", "breakthrough", "earnings"},
               <<"NVDA", "TSLA">>),
     InboxFile("f2again", "src2", Subject2, 1, 300,
               {"disruption", "breakthrough", "earnings"}, <<"NVDA", "TSLA">>),
     InboxFile("f5", "src3", LongSubject, 1, 300,
               {"disruption", "disruptive", "paradigm shift", "game changer",
                "revolutionary"}, <<"NVDA">>)}

InitImport ==
    /\ InitScoring
    /\ today = 1
    /\ tie_order = <<"NVDA", "TSLA">>
    /\ InitNewsletters
    /\ InitEpisodes
    /\ InitInsightsEmpty
    /\ InitTermsEmpty
    /\ InitRunIdle

NextImport ==
    \/ /\ Cardinality(inbox) < MaxInbox
       /\ \E f \in ImportInputs : SaveEmail(f)
    \/ ImportNewsletters

SpecImport == InitImport /\ [][NextImport]_vars

\* The stored mentions written from inbox file f.
MentionsOfFile(f) ==
    {i \in DOMAIN ticker_mentions :
        /\ ticker_mentions[i].source_type = "newsletter"
        /\ ticker_mentions[i].source_name = f.sender
        /\ ticker_mentions[i].episode_title = Prefix(f.subject, MentionTitleLimit)}

\* C9 (as stated): every stored newsletter mention has weighted_score
\* 10 x type multiplier x (1 + conviction/100), where the type multiplier is
\* 0.5 plus 0.25 per disruption keyword found in the newsletter's text,
\* capped at 1.5 (so 1.0 for exactly two keywords).
C9_AsStated ==
    \A f \in inbox : \A i \in MentionsOfFile(f) :
        ticker_mentions[i].weighted_score =
            NewsletterBase * GradedSourceWeight(DisruptionMatches(f))
                * ConvictionMult(ticker_mentions[i].conviction_score)

(***************************************************************************)
(* SpecIngest: transcript files, two of them carrying the same rss_guid,   *)
(* are processed in any order and any number of times, with any answer of  *)
(* the AI analysis.                                                        *)
(***************************************************************************)
TitleA == <<"A", "a">>
TitleB == <<"B", "b">>
\* Two titles that agree on their first 50 characters only.
TitlePad == [i \in 1..FuzzyTitleLen |-> "a"]
TitleLongX == TitlePad \o <<"x">>
TitleLongY == TitlePad \o <<"y">>

IngestFiles ==
    {TranscriptFile("ep1", 600, "pod1", TitleA, "guid1", 0),
     TranscriptFile("ep1_refetch", 600, "pod1", TitleB, "guid1", 0),
     TranscriptFile("ep2", 600, "pod1", TitleLongX, "", 3),
     TranscriptFile("ep3", 600, "pod2", TitleA, "guid3", 0),
     TranscriptFile("stub", 400, "pod1", TitleB, "guid4", 0)}

AnalysisMention(ticker, conviction_score, sentiment, timeframe) ==
    [ticker |-> ticker, conviction_score |-> conviction_score,
     sentiment |-> sentiment, timeframe |-> timeframe,
     is_disruption_focused |-> FALSE]

IngestAnalyses ==
    {NoAnalysis,
     Analysis(TitleA, 2, <<AnalysisMention("NVDA", 50, "bullish", "medium_term")>>),
     Analysis(TitleB, 0, <<AnalysisMention("NVDA", 80, "bullish", "long_term"),
                           AnalysisMention("TSLA", 0 - 25, "bearish", "short_term")>>),
     Analysis(TitleLongY, 2, <<>>)}

InitIngest ==
    /\ InitScoring
    /\ today = 5
    /\ tie_order = <<"NVDA", "TSLA">>
    /\ InitNewsletters
    /\ InitEpisodes
    /\ InitInsightsEmpty
    /\ InitTermsEmpty
    /\ InitRunIdle

NextIngest ==
    \E f \in IngestFiles, analysis \in IngestAnalyses :
        ProcessTranscriptFile(f, analysis)

SpecIngest == InitIngest /\ [][NextIngest]_vars

\* The episode row a step has added (the step appends at most one).
AddedEpisode == podcast_episodes'[Len(podcast_episodes')]

MaxTranscripts == 8

\* The element of s for the i-th arrival, starting over at the end of s.
Cycle(s, i) == s[((i - 1) % Len(s)) + 1]

\* Episode dates: recent ones, one older than two years (200) and one old
\* but within two years (400).
EpisodeDates == <<999, 200, 998, 997, 996, 995, 400, 994>>

ArrivingTranscript(i) ==
    TranscriptFile(ToString(i), 600, "pod1", <<"e", ToString(i)>>, ToString(i), 0)

ArrivingAnalysis(i) ==
    Analysis(<<"e", ToString(i)>>, Cycle(EpisodeDates, i),
             <<AnalysisMention("NVDA", 50, "bullish", "medium_term")>>)

\* The newsletters in the order they arrive: a recent one and one with an
\* old Date header.
ArrivingEmails ==
    <<InboxFile("n1", "src1", <<"n", "1">>, 998, 300, {"earnings"}, <<>>),
      InboxFile("n2", "src1", <<"n", "2">>, 300, 300, {"earnings"}, <<>>)>>

AiTitle == <<"a", "i">>

InitPromote ==
    /\ InitScoring
    /\ today = 1000
    /\ tie_order = <<"NVDA", "TSLA">>
    /\ InitNewsletters
    /\ InitEpisodes
    /\ InitInsightsEmpty
    /\ InitTermsEmpty
    /\ InitRunIdle

NextPromote ==
    \/ /\ Len(podcast_episodes) < MaxTranscripts
       /\ ProcessTranscriptFile(ArrivingTranscript(Len(podcast_episodes) + 1),
                                ArrivingAnalysis(Len(podcast_episodes) + 1))
    \/ /\ Cardinality(inbox) < Len(ArrivingEmails)
       /\ Len(newsletters) = Cardinality(inbox)
       /\ SaveEmail(ArrivingEmails[Cardinality(inbox) + 1])
    \/ ImportNewsletters
    \/ PromoteEpisodesToInsights
    \/ \E rows \in Orderings(PendingNewsletters(newsletters)),
          ai \in [PendingNewsletters(newsletters) -> {NoAiTitle, AiTitle}] :
           PromoteNewslettersToInsights(rows, ai)

SpecPromote == InitPromote /\ [][NextPromote]_vars

\* The number of rows with display_on_main = 1.
ActiveCount(tbl) == Cardinality({i \in DOMAIN tbl : tbl[i].display_on_main})

\* C1 (as stated): once a promotion call has returned, at most K = 8 rows of
\* latest_insights have display_on_main = 1.
C1_AsStated ==
    last_returned.call # "none" => ActiveCount(latest_insights) <= MainPageK

\* The ids on the main page under one order of the engine.
MainPageIds(engine_order) ==
    {r.id : r \in Range(GetMainPageContent(latest_insights, engine_order))}

\* C7 (as stated): every insight promoted since the last archival step is in
\* the insights list of get_main_page_content(), whatever its source_date
\* and however many other insights are active.
C7_AsStated ==
    \A x \in promoted_since :
        \A engine_order \in EngineOrders : x \in MainPageIds(engine_order)

\* The rows a step takes off the main page.
ArchivedByStep ==
    {i \in DOMAIN latest_insights' :
        /\ ~latest_insights'[i].display_on_main
        /\ i \in DOMAIN latest_insights => latest_insights[i].display_on_main}

\* Row i as it was before the step's archival: the stored row, or the row
\* as the step inserted it.
BeforeArchival(i) ==
    IF i \in DOMAIN latest_insights THEN latest_insights[i]
    ELSE [latest_insights'[i] EXCEPT !.display_on_main = TRUE,
                                     !.archived_date = 0,
                                     !.archived_reason = ""]

\* Scenario C: 9 insights are on the main page and not archived, and the
\* step is a promote_episodes_to_insights() that inserts one more.
ScenarioC ==
    /\ Len(SelectSeq(latest_insights, OnMainUnarchived)) = MainPageK + 1
    /\ ActiveCount(latest_insights) = MainPageK + 1
    /\ Len(latest_insights') = Len(latest_insights) + 1
    /\ latest_insights'[Len(latest_insights')].source_type = "podcast"

\* Every row the step archives is older (source_date, then id) than every
\* row it leaves on the main page, carries the auto-archive reason, and
\* every other stored row is untouched.
ArchivesOldestOnly ==
    /\ \A i \in ArchivedByStep :
          /\ latest_insights'[i] =
                [BeforeArchival(i) EXCEPT !.display_on_main = FALSE,
                                          !.archived_date = today,
                                          !.archived_reason = AutoArchiveReason]
          /\ \A j \in DOMAIN latest_insights' :
                latest_insights'[j].display_on_main =>
                    MoreRecent(latest_insights'[j], BeforeArchival(i))
    /\ \A j \in DOMAIN latest_insights :
          j \notin ArchivedByStep => latest_insights'[j] = latest_insights[j]

\* C10 (as stated): in Scenario C exactly one insight, the one with the
\* oldest source_date, changes to display_on_main = 0 with archived_reason
\* 'Auto-archived: keep 8 most recent on main', and every other row is
\* untouched.
C10_AsStated ==
    [][ScenarioC => Cardinality(ArchivedByStep) = 1 /\ ArchivesOldestOnly]_vars

\* C10 (amended): in Scenario C exactly two insights (10 - K), the two
\* oldest by source_date (the lower id first among equal dates), change to
\* display_on_main = 0 with archived_reason 'Auto-archived: keep 8 most
\* recent on main', and every other row is untouched.
C10_ArchivesCountMinusK ==
    [][ScenarioC => Cardinality(ArchivedByStep) = 2 /\ ArchivesOldestOnly]_vars

\* A promote_episodes_to_insights() that met 9 insights, all on the main
\* page, has inserted a tenth and archived two: 8 stay on the main page.
C10_Witness ==
    /\ last_returned = [call |-> "episodes", promoted |-> 1, archived |-> 2]
    /\ Len(latest_insights) = MainPageK + 2
    /\ ActiveCount(latest_insights) = MainPageK

(***************************************************************************)
(* SpecScenarioD: transcripts without rss_guid of one podcast whose titles *)
(* are 'Fed Signals Pivot - Special Edition', 'Fed Signals Pivot' and the  *)
(* latter in capitals, processed in any order with any answer of the AI.   *)
(***************************************************************************)
FedSignalsPivot ==
    <<"F", "e", "d", " ", "S", "i", "g", "n", "a", "l", "s", " ", "P",
    "i", "v", "o", "t">>

SpecialEditionSuffix ==
    <<" ", "-", " ", "S", "p", "e", "c", "i", "a", "l", " ", "E", "d",
    "i", "t", "i", "o", "n">>

FedSignalsPivotSpecial == FedSignalsPivot \o SpecialEditionSuffix

FedSignalsPivotCapitals ==
    [i \in DOMAIN FedSignalsPivot |->
        CASE FedSignalsPivot[i] = "e" -> "E"
          [] FedSignalsPivot[i] = "s" -> "S"
          [] FedSignalsPivot[i] = "p" -> "P"
          [] OTHER -> FedSignalsPivot[i]]

ScenarioDFiles ==
    {TranscriptFile("fed_special", 600, "pod1", FedSignalsPivotSpecial, "", 0),
     TranscriptFile("fed", 600, "pod1", FedSignalsPivot, "", 0),
     TranscriptFile("fed_capitals", 600, "pod1", FedSignalsPivotCapitals, "", 0),
     TranscriptFile("fed_other_show", 600, "pod2", FedSignalsPivot, "", 0)}

ScenarioDAnalyses ==
    {NoAnalysis,
     Analysis(FedSignalsPivotSpecial, 2,
              <<AnalysisMention("NVDA", 50, "bullish", "medium_term")>>),
     Analysis(FedSignalsPivot, 2,
              <<AnalysisMention("TSLA", 50, "bearish", "medium_term")>>),
     Analysis(TitleA, 2, <<>>)}

NextScenarioD ==
    \E f \in ScenarioDFiles, analysis \in ScenarioDAnalyses :
        ProcessTranscriptFile(f, analysis)

SpecScenarioD == InitIngest /\ [][NextScenarioD]_vars

\* Positions of the stored episodes of a podcast with a given title.
EpisodesTitled(podcast_name, episode_title) ==
    {i \in DOMAIN podcast_episodes :
        /\ podcast_episodes[i].podcast_name = podcast_name
        /\ podcast_episodes[i].episode_title = episode_title}

\* C11 (as stated): once an episode without guid titled 'Fed Signals Pivot -
\* Special Edition' is stored, the duplicate check for 'Fed Signals Pivot' of
\* the same podcast reports a duplicate, and no episode with that title is
\* created after it.
C11_AsStated ==
    \A i \in EpisodesTitled("pod1", FedSignalsPivotSpecial) :
        /\ EpisodeExistsInDb(podcast_episodes, "pod1", FedSignalsPivot, "")
        /\ \A j \in EpisodesTitled("pod1", FedSignalsPivot) : j < i

(***************************************************************************)
(* SpecRawConviction: the AI analysis returns conviction scores inside and *)
(* outside the documented range -100..100.                                 *)
(***************************************************************************)
RawConvictions == {0 - 150, 0 - 100, 0, 100, 150, 250}

RawConvictionFiles ==
    {TranscriptFile("raw1", 600, "pod1", TitleA, "", 0),
     TranscriptFile("raw2", 600, "pod1", TitleB, "", 0),
     TranscriptFile("raw3", 600, "pod2", TitleA, "", 0)}

RawConvictionAnalyses ==
    {Analysis(t, 2, <<AnalysisMention("NVDA", c, "bullish", "medium_term")>>) :
        t \in {TitleA, TitleB}, c \in RawConvictions}

NextRawConviction ==
    \E f \in RawConvictionFiles, analysis \in RawConvictionAnalyses :
        ProcessTranscriptFile(f, analysis)

SpecRawConviction == InitIngest /\ [][NextRawConviction]_vars

\* C12 (as stated): every stored mention has conviction_score in -100..100,
\* and its weighted_score is the one of a conviction in that range (a value
\* outside is clamped to the nearest bound before the score is computed).
C12_AsStated ==
    \A i \in DOMAIN ticker_mentions :
        /\ ticker_mentions[i].conviction_score \in ConvictionRange
        /\ \E c \in ConvictionRange :
              ticker_mentions[i].weighted_score =
                  WeightedScore(ticker_mentions[i].source_type, c,
                                ticker_mentions[i].is_disruption_focused)

(***************************************************************************)
(* Suggested-term curation (auto_curate_terms.py, manage_suggested_terms)  *)
(***************************************************************************)
MIN_RELEVANCE_AUTO == 70
MIN_SOURCES_AUTO == 2
MIN_MENTIONS_AUTO == 3
MIN_RELEVANCE_REVIEW == 40
RelevanceCap == 100
NewTermRelevance(has_definition) == IF has_definition THEN 50 ELSE 30

\* A row of suggested_terms.
SuggestedTerm(id, term, has_definition, mention_count, source_diversity, relevance_score) ==
    [id |-> id, term |-> term, has_definition |-> has_definition,
     mention_count |-> mention_count, source_diversity |-> source_diversity,
     relevance_score |-> relevance_score, status |-> "pending"]

\* A row of definitions as the promotions insert it.
DefinitionRow(id, term, added_date, vote_count) ==
    [id |-> id, term |-> term, added_date |-> added_date,
     vote_count |-> vote_count, display_on_main |-> TRUE, display_order |-> 0,
     archived_date |-> 0, archived_reason |-> ""]

\* analyze_term_quality(term_data)
AnalyzeTermQuality(term_data) ==
    IF /\ term_data.relevance_score >= MIN_RELEVANCE_AUTO
       /\ term_data.source_diversity >= MIN_SOURCES_AUTO
       /\ term_data.mention_count >= MIN_MENTIONS_AUTO
    THEN "auto_promote"
    ELSE IF term_data.relevance_score >= MIN_RELEVANCE_REVIEW
         THEN "manual_review"
         ELSE "skip"

TermInDefinitions(defs, term) == \E i \in DOMAIN defs : defs[i].term = term

\* auto_promote_term(db, term_data) on the curation state st; ok is the
\* value it returns.
AutoPromoteTerm(st, term_data, d) ==
    IF TermInDefinitions(st.definitions, term_data.term)
    THEN [st EXCEPT !.ok = FALSE]
    ELSE [st EXCEPT
            !.definitions =
                Append(@, DefinitionRow(Len(@) + 1, term_data.term, d,
                                        term_data.mention_count)),
            !.suggested_terms =
                [i \in DOMAIN @ |->
                    IF @[i].id = term_data.id
                    THEN [@[i] EXCEPT !.status = "approved"]
                    ELSE @[i]],
            !.ok = TRUE]

\* One pass of the loop of main() over one pending term.
CurateTerm(st, term_data, d) ==
    LET action == AnalyzeTermQuality(term_data)
    IN  IF action = "auto_promote"
        THEN LET p == AutoPromoteTerm(st, term_data, d)
             IN  IF p.ok THEN [p EXCEPT !.promoted = @ + 1] ELSE p
        ELSE IF action = "manual_review"
             THEN [st EXCEPT !.review_queue = Append(@, term_data)]
             ELSE [st EXCEPT !.skipped = @ + 1]

RECURSIVE CurateTerms(_, _, _)
CurateTerms(st, pending_terms, d) ==
    IF pending_terms = <<>>
    THEN st
    ELSE CurateTerms(CurateTerm(st, Head(pending_terms), d),
                     Tail(pending_terms), d)

\* The pending rows in the orders that ORDER BY relevance_score DESC,
\* mention_count DESC allows.
PendingTerms(tbl) == {tbl[i] : i \in {j \in DOMAIN tbl : tbl[j].status = "pending"}}

CuratedBefore(a, b) ==
    \/ a.relevance_score > b.relevance_score
    \/ /\ a.relevance_score = b.relevance_score
       /\ a.mention_count >= b.mention_count

PendingOrders(tbl) ==
    {o \in Orderings(PendingTerms(tbl)) :
        \A i, j \in DOMAIN o : i < j => CuratedBefore(o[i], o[j])}

\* auto_curate_terms.main()
AutoCurateTerms ==
    /\ IF PendingTerms(suggested_terms) = {}
       THEN /\ last_curation' = [ran |-> TRUE, promoted |-> 0, review |-> 0,
                                 skipped |-> 0]
            /\ UNCHANGED <<suggested_terms, definitions>>
       ELSE \E pending_terms \in PendingOrders(suggested_terms) :
              LET st == CurateTerms([definitions |-> definitions,
                                     suggested_terms |-> suggested_terms,
                                     promoted |-> 0, review_queue |-> <<>>,
                                     skipped |-> 0, ok |-> FALSE],
                                    pending_terms, today)
              IN  /\ definitions' = st.definitions
                  /\ suggested_terms' = st.suggested_terms
                  /\ last_curation' =
                        [ran |-> TRUE, promoted |-> st.promoted,
                         review |-> Len(st.review_queue),
                         skipped |-> st.skipped,
                         review_terms |-> st.review_queue]
    /\ UNCHANGED <<overton_terms, scoreVars, engineVars, newsletterVars,
                   episodeVars, insightVars, runVars>>

\* _add_or_update_term(term_data, source_type) on the pair of tables.
AddOrUpdateTerm(tbl, defs, term, has_definition, mention_count) ==
    IF \E i \in DOMAIN tbl : tbl[i].term = term
    THEN LET k == CHOOSE i \in DOMAIN tbl :
                     /\ tbl[i].term = term
                     /\ \A j \in DOMAIN tbl : tbl[j].term = term => i <= j
         IN  [tbl EXCEPT
                ![k].mention_count = @ + 1,
                ![k].source_diversity = @ + 1,
                ![k].relevance_score = Min(@ + 5, RelevanceCap)]
    ELSE IF TermInDefinitions(defs, term)
         THEN tbl
         ELSE Append(tbl, SuggestedTerm(Len(tbl) + 1, term, has_definition,
                                        mention_count, 1,
                                        NewTermRelevance(has_definition)))

\* scan_content_for_terms(): one phrase that extract_terms_from_content
\* found at least twice (its definition is None) is added or updated.
ScanContentForTerms(term, mention_count) ==
    /\ mention_count >= 2
    /\ suggested_terms' = AddOrUpdateTerm(suggested_terms, definitions, term,
                                          FALSE, mention_count)
    /\ UNCHANGED <<definitions, overton_terms, last_curation, scoreVars,
                   engineVars, newsletterVars, episodeVars, insightVars,
                   runVars>>

(***************************************************************************)
(* SpecTermQuality: analyze_term_quality over suggested_terms rows of      *)
(* every relevance band, source count and mention count, applied by        *)
(* auto_curate_terms.main(); scans add and update rows in between.         *)
(***************************************************************************)
MaxTermMentions == 4

TermNames == {"stablecoin", "agentic"}
RelevanceProbes == {30, 40, 69, 70, 80}
SourceProbes == {1, 2}
MentionProbes == {2, 3}

TermProbes ==
    {SuggestedTerm(1, "stablecoin", FALSE, m, s, r) :
        m \in MentionProbes, s \in SourceProbes, r \in RelevanceProbes}

InitTermQuality ==
    /\ InitScoring
    /\ today = 1
    /\ tie_order = <<"NVDA", "TSLA">>
    /\ InitNewsletters
    /\ InitEpisodes
    /\ InitInsightsEmpty
    /\ suggested_terms \in {<<p>> : p \in TermProbes}
    /\ definitions = <<>>
    /\ overton_terms = <<>>
    /\ last_curation = NoCuration
    /\ InitRunIdle

NextTermQuality ==
    \/ /\ \A i \in DOMAIN suggested_terms :
             suggested_terms[i].mention_count < MaxTermMentions
       /\ \E term \in TermNames : ScanContentForTerms(term, 2)
    \/ AutoCurateTerms

SpecTermQuality == InitTermQuality /\ [][NextTermQuality]_vars

\* C13: every term the curation run queued for manual review has a
\* relevance of at least 40 and below 70; a term of relevance 70 or more
\* with too few sources or mentions is skipped, not queued.
C13_AsStated ==
    (last_curation.ran /\ "review_terms" \in DOMAIN last_curation) =>
        \A i \in DOMAIN last_curation.review_terms :
            LET t == last_curation.review_terms[i]
            IN  /\ t.relevance_score >= MIN_RELEVANCE_REVIEW
                /\ t.relevance_score < MIN_RELEVANCE_AUTO

(***************************************************************************)
(* Archiving and restoring (run_pipeline.auto_archive_content,             *)
(* archive_manager.restore_item)                                           *)
(***************************************************************************)
InsightMaxAgeDays == 14
InsightKeepRecent == 5
OvertonMaxAgeDays == 90
DefinitionKeepTop == 10
AgedOutInsightReason == "Auto-archived: Aged out (>14 days)"
AgedOutOvertonReason == "Auto-archived: Aged out (>90 days)"
GraduatedReason == "Graduated to mainstream"
LowVoteReason == "Auto-archived: Lower vote count (outside top 10)"

\* A row of overton_terms.
OvertonRow(id, term, first_detected_date, mention_count, status, display_on_main) ==
    [id |-> id, term |-> term, first_detected_date |-> first_detected_date,
     mention_count |-> mention_count, status |-> status,
     display_on_main |-> display_on_main, archived_date |-> 0,
     archived_reason |-> ""]

\* The sets of ids a query "ORDER BY ... LIMIT -1 OFFSET k" can yield
\* over rows: all but k rows, none of them ordered before a row left out;
\* rows equal under the ORDER BY fall on either side.  before holds the
\* pairs <<a, b>> of rows with a ordered strictly before b.
BeyondOffset(rows, k, before) ==
    {{r.id : r \in S} :
        S \in {T \in SUBSET rows :
                 /\ Cardinality(T) = IF Cardinality(rows) > k
                                     THEN Cardinality(rows) - k ELSE 0
                 /\ \A a \in T, b \in rows \ T : <<a, b>> \notin before}}

\* UPDATE ... SET display_on_main = 0, archived_date = date('now'),
\* archived_reason = ? WHERE id IN ids
ArchiveRows(tbl, ids, d, reason) ==
    [i \in DOMAIN tbl |->
        IF tbl[i].id \in ids
        THEN [tbl[i] EXCEPT !.display_on_main = FALSE,
                            !.archived_date = d,
                            !.archived_reason = reason]
        ELSE tbl[i]]

\* The insights on the main page that are older than 14 days.
AgedInsights(tbl, d) ==
    {tbl[i] : i \in {j \in DOMAIN tbl :
                        /\ tbl[j].display_on_main
                        /\ tbl[j].source_date < d - InsightMaxAgeDays}}

\* ORDER BY source_date DESC
LaterSourceDate(rows) ==
    {<<a, b>> \in rows \X rows : a.source_date > b.source_date}

\* The overton terms on the main page that aged out or graduated.
OldOvertonTerms(tbl, d) ==
    {i \in DOMAIN tbl :
        /\ tbl[i].display_on_main
        /\ \/ tbl[i].first_detected_date < d - OvertonMaxAgeDays
           \/ tbl[i].status = "graduated"}

ArchiveOvertonTerms(tbl, d) ==
    [i \in DOMAIN tbl |->
        IF i \in OldOvertonTerms(tbl, d)
        THEN [tbl[i] EXCEPT
                !.display_on_main = FALSE,
                !.status = IF @ = "active" THEN "archived" ELSE @,
                !.archived_date = d,
                !.archived_reason = IF tbl[i].status = "graduated"
                                    THEN GraduatedReason
                                    ELSE AgedOutOvertonReason]
        ELSE tbl[i]]

DefinitionsOnMain(tbl) ==
    {tbl[i] : i \in {j \in DOMAIN tbl : tbl[j].display_on_main}}

\* ORDER BY vote_count DESC, added_date DESC
MoreVotes(rows) ==
    {<<a, b>> \in rows \X rows :
        \/ a.vote_count > b.vote_count
        \/ a.vote_count = b.vote_count /\ a.added_date > b.added_date}

\* auto_archive_content()
AutoArchiveContent ==
    /\ \E old_insights \in
              BeyondOffset(AgedInsights(latest_insights, today),
                           InsightKeepRecent,
                           LaterSourceDate(AgedInsights(latest_insights,
                                                        today))),
          low_vote_defs \in
              BeyondOffset(DefinitionsOnMain(definitions), DefinitionKeepTop,
                           MoreVotes(DefinitionsOnMain(definitions))) :
          /\ latest_insights' = ArchiveRows(latest_insights, old_insights,
                                            today, AgedOutInsightReason)
          /\ definitions' = ArchiveRows(definitions, low_vote_defs, today,
                                        LowVoteReason)
    /\ overton_terms' = ArchiveOvertonTerms(overton_terms, today)
    /\ UNCHANGED <<last_returned, promoted_since, suggested_terms,
                   last_curation, scoreVars, engineVars, newsletterVars,
                   episodeVars, runVars>>

ItemTypes == {"insights", "definitions", "overton"}

\* The UPDATE without its WHERE clause: every row goes back on the page.
RestoreRowsEverywhere(tbl, item_id) ==
    [i \in DOMAIN tbl |-> [tbl[i] EXCEPT !.display_on_main = TRUE]]

\* UPDATE ... SET display_on_main = 1 WHERE id = item_id
RestoreRows(tbl, item_id) ==
    [i \in DOMAIN tbl |->
        IF tbl[i].id = item_id
        THEN [tbl[i] EXCEPT !.display_on_main = TRUE]
        ELSE tbl[i]]

\* archive_manager.restore_item(item_type, item_id)
RestoreItem(item_type, item_id) ==
    /\ latest_insights' =
          IF item_type = "insights"
          THEN RestoreRows(latest_insights, item_id) ELSE latest_insights
    /\ definitions' =
          IF item_type = "definitions"
          THEN RestoreRows(definitions, item_id) ELSE definitions
    /\ overton_terms' =
          IF item_type = "overton"
          THEN [i \in DOMAIN overton_terms |->
                  IF overton_terms[i].id = item_id
                  THEN [overton_terms[i] EXCEPT !.display_on_main = TRUE,
                                                !.status = "active"]
                  ELSE overton_terms[i]]
          ELSE overton_terms
    /\ UNCHANGED <<last_returned, promoted_since, suggested_terms,
                   last_curation, scoreVars, engineVars, newsletterVars,
                   episodeVars, runVars>>

(***************************************************************************)
(* SpecArchive: the automatic operations (ingest, promotion, aggregation,  *)
(* auto-archiving, term scan and curation) and the manual restore command  *)
(* over a seeded database.  Six episodes older than 14 days arrive, each   *)
(* once the earlier ones are promoted, then an episode of another podcast  *)
(* under the title of the first; the seeded definitions hold an archived   *)
(* term that a scan finds again.                                           *)
(***************************************************************************)
MaxArchiveTranscripts == 7
MaxScanMentions == 10
ManualIds == {1}

ArchiveTranscript(i) ==
    IF i < MaxArchiveTranscripts
    THEN TranscriptFile(ToString(i), 600, "pod1", <<"e", ToString(i)>>,
                        ToString(i), 0)
    ELSE TranscriptFile(ToString(i), 600, "pod2", <<"e", "1">>,
                        ToString(i), 0)

ArchiveAnalysis(i) ==
    IF i < MaxArchiveTranscripts
    THEN Analysis(<<"e", ToString(i)>>, 890 + 10 * i, <<>>)
    ELSE Analysis(<<"e", "1">>, 890 + 10 * i, <<>>)

\* seed_database: an archived definition, then ten on the main page.
SeededDefinitions ==
    [i \in 1..(DefinitionKeepTop + 1) |->
        IF i = 1
        THEN [DefinitionRow(1, "memestock", 700, 6) EXCEPT
                !.display_on_main = FALSE,
                !.archived_date = 880,
                !.archived_reason = "mainstream"]
        ELSE DefinitionRow(i, ToString(i), 900, 30 - i)]

\* seed_database: an old term, a recent one and a graduated one.
SeededOvertonTerms ==
    <<OvertonRow(1, "defi", 800, 5, "active", TRUE),
      OvertonRow(2, "agents", 990, 9, "active", TRUE),
      OvertonRow(3, "spac", 950, 3, "graduated", TRUE)>>

\* A suggested term after seven further mentions of its first scan.
SeededSuggestedTerms ==
    <<SuggestedTerm(1, "stablecoin", FALSE, 9, 8, 65)>>

InitArchive ==
    /\ InitScoring
    /\ today = 1000
    /\ tie_order = <<"NVDA", "TSLA">>
    /\ InitNewsletters
    /\ InitEpisodes
    /\ InitInsightsEmpty
    /\ suggested_terms = SeededSuggestedTerms
    /\ definitions = SeededDefinitions
    /\ overton_terms = SeededOvertonTerms
    /\ last_curation = NoCuration
    /\ InitRunIdle

NextArchive ==
    \/ /\ Len(podcast_episodes) < MaxArchiveTranscripts
       /\ EpisodeQueue(podcast_episodes, latest_insights) = <<>>
       /\ ProcessTranscriptFile(ArchiveTranscript(Len(podcast_episodes) + 1),
                                ArchiveAnalysis(Len(podcast_episodes) + 1))
    \/ PromoteEpisodesToInsights
    \/ AggregateScores
    \/ AutoArchiveContent
    \/ /\ \A i \in DOMAIN suggested_terms :
             suggested_terms[i].mention_count < MaxScanMentions
       /\ \E term \in {"stablecoin", "memestock"} :
             ScanContentForTerms(term, 2)
    \/ AutoCurateTerms
    \/ \E item_type \in ItemTypes, item_id \in ManualIds :
          RestoreItem(item_type, item_id)

SpecArchive == InitArchive /\ [][NextArchive]_vars

\* A row of tbl that is off the main page before the step and on it after.
Reactivated(old, new) ==
    \E i \in DOMAIN old :
        /\ i \in DOMAIN new
        /\ ~old[i].display_on_main
        /\ new[i].display_on_main

BeginPromoteEpisodes ==
    /\ promo = NoPromotion
    /\ promo' = [call |-> "episodes",
                 queue |-> EpisodeQueue(podcast_episodes, latest_insights),
                 promoted |-> 0]
    /\ UNCHANGED <<last_read, last_run, agg_cycle, scan_state, scoreVars, engineVars, newsletterVars,
                   episodeVars, insightVars, termVars>>

\* promote_episodes_to_insights(): the block of one candidate.
PromoteNextEpisode ==
    /\ promo.call = "episodes"
    /\ promo.queue # <<>>
    /\ latest_insights' = PromoteEpisode(latest_insights, Head(promo.queue),
                                         today)
    /\ promo' = [promo EXCEPT
                   !.queue = Tail(@),
                   !.promoted = @ + Len(latest_insights')
                                  - Len(latest_insights)]
    /\ UNCHANGED <<last_returned, promoted_since, last_read, last_run, agg_cycle, scan_state, scoreVars,
                   engineVars, newsletterVars, episodeVars, termVars>>

\* promote_episodes_to_insights(): the auto-archive block and the return.
ArchiveBeyondMainPage ==
    /\ promo.call = "episodes"
    /\ promo.queue = <<>>
    /\ latest_insights' = AutoArchive(latest_insights, today)
    /\ last_returned' = [call |-> "episodes", promoted |-> promo.promoted,
                         archived |-> Cardinality(ToArchive(latest_insights))]
    /\ promoted_since' = {}
    /\ promo' = NoPromotion
    /\ UNCHANGED <<last_read, last_run, agg_cycle, scan_state, scoreVars, engineVars, newsletterVars,
                   episodeVars, termVars>>

\* promote_newsletters_to_insights(): the SELECT of the candidates.
BeginPromoteNewsletters(rows) ==
    /\ promo = NoPromotion
    /\ rows \in Orderings(PendingNewsletters(newsletters))
    /\ promo' = [call |-> "newsletters", queue |-> rows, promoted |-> 0]
    /\ UNCHANGED <<last_read, last_run, agg_cycle, scan_state, scoreVars, engineVars, newsletterVars,
                   episodeVars, insightVars, termVars>>

\* promote_newsletters_to_insights(): the AI call and the block of one
\* candidate.
PromoteNextNewsletter(ai_title) ==
    /\ promo.call = "newsletters"
    /\ promo.queue # <<>>
    /\ LET st == PromoteNewsletter([insights |-> latest_insights,
                                    newsletters |-> newsletters,
                                    inserted |-> {}],
                                   Head(promo.queue), ai_title, inbox, today)
       IN /\ latest_insights' = st.insights
          /\ newsletters' = st.newsletters
          /\ promoted_since' = promoted_since \cup st.inserted
          /\ promo' = [promo EXCEPT
                         !.queue = Tail(@),
                         !.promoted = @ + Cardinality(st.inserted)]
    /\ UNCHANGED <<last_returned, inbox, last_read, last_run, agg_cycle, scan_state, scoreVars, engineVars,
                   episodeVars, termVars>>

\* promote_newsletters_to_insights(): the return.
EndPromoteNewsletters ==
    /\ promo.call = "newsletters"
    /\ promo.queue = <<>>
    /\ last_returned' = [call |-> "newsletters", promoted |-> promo.promoted,
                         archived |-> 0]
    /\ promo' = NoPromotion
    /\ UNCHANGED <<latest_insights, promoted_since, last_read, last_run, agg_cycle, scan_state, scoreVars,
                   engineVars, newsletterVars, episodeVars, termVars>>

(***************************************************************************)
(* SpecPromoteSteps: transcripts and newsletters arrive while no promotion *)
(* call is in progress, a transcript while at most one episode awaits      *)
(* promotion; the promotions run transaction by transaction.  The second   *)
(* transcript carries the title of the first on another podcast.           *)
(***************************************************************************)
MaxStepTranscripts == 10

StepTitle(i) == IF i = 2 THEN <<"e", "1">> ELSE <<"e", ToString(i)>>

StepTranscript(i) ==
    TranscriptFile(ToString(i), 600, IF i = 2 THEN "pod2" ELSE "pod1",
                   StepTitle(i), ToString(i), 0)

StepAnalysis(i) == Analysis(StepTitle(i), 980 + i, <<>>)

NextPromoteSteps ==
    \/ /\ promo = NoPromotion
       /\ Len(podcast_episodes) < MaxStepTranscripts
       /\ Len(EpisodeQueue(podcast_episodes, latest_insights)) < 2
       /\ ProcessTranscriptFile(StepTranscript(Len(podcast_episodes) + 1),
                                StepAnalysis(Len(podcast_episodes) + 1))
    \/ /\ promo = NoPromotion
       /\ Cardinality(inbox) < Len(ArrivingEmails)
       /\ Len(newsletters) = Cardinality(inbox)
       /\ SaveEmail(ArrivingEmails[Cardinality(inbox) + 1])
    \/ /\ promo = NoPromotion
       /\ ImportNewsletters
    \/ BeginPromoteEpisodes
    \/ PromoteNextEpisode
    \/ ArchiveBeyondMainPage
    \/ \E rows \in Orderings(PendingNewsletters(newsletters)) :
          BeginPromoteNewsletters(rows)
    \/ \E ai_title \in {NoAiTitle, AiTitle} : PromoteNextNewsletter(ai_title)
    \/ EndPromoteNewsletters

SpecPromoteSteps == InitPromote /\ [][NextPromoteSteps]_vars

\* C20 (as stated): in every committed state, the states between the
\* insert of one promoted insight and the next included, at most 8 rows of
\* latest_insights have display_on_main = 1.
C20_AsStated ==
    Cardinality({i \in DOMAIN latest_insights :
                    latest_insights[i].display_on_main}) <= MainPageK

UniqueTitles(tbl) ==
    \A i, j \in DOMAIN tbl : tbl[i].title = tbl[j].title => i = j

\* C15: no two latest_insights rows share a title, and the transaction of
\* one candidate (episode or newsletter) leaves every existing row as it
\* was and inserts at most a row with display_on_main = 1 and
\* display_order = 0; a candidate whose title exists adds no row.
C15_TitlesStayUnique ==
    [][/\ UniqueTitles(latest_insights')
       /\ (promo.call # "none" /\ promo.queue # <<>>) =>
             /\ \A i \in DOMAIN latest_insights :
                   /\ i \in DOMAIN latest_insights'
                   /\ latest_insights'[i] = latest_insights[i]
             /\ \A i \in DOMAIN latest_insights' \ DOMAIN latest_insights :
                   /\ latest_insights'[i].display_on_main
                   /\ latest_insights'[i].display_order = 0]_vars

\* The insight of the first episode is archived, the episode of the other
\* podcast under its title is still without an insight after an episode
\* promotion that came later examined it and inserted nothing, and two
\* newsletters given the same AI title left one insight.
C15_Witness ==
    /\ promo = NoPromotion
    /\ last_returned = [call |-> "episodes", promoted |-> 0, archived |-> 0]
    /\ \E i \in DOMAIN latest_insights :
          /\ latest_insights[i].title = StepTitle(2)
          /\ latest_insights[i].podcast_episode_id = 1
          /\ ~latest_insights[i].display_on_main
    /\ Len(podcast_episodes) >= 2
    /\ \A i \in DOMAIN latest_insights :
          latest_insights[i].podcast_episode_id # 2
    /\ \A n \in DOMAIN newsletters : newsletters[n].added_to_site
    /\ Len(newsletters) = 2
    /\ Cardinality({i \in DOMAIN latest_insights :
                       latest_insights[i].source_type = "newsletter"}) = 1

(***************************************************************************)
(* The export reads (DashboardDB.get_daily_scores, get_main_page_content)  *)
(***************************************************************************)
DefinitionLimit == 10
OvertonLimit == 8

\* ORDER BY display_order, vote_count DESC; rows equal in both come in the
\* engine's order.
DefinitionShownBefore(a, b, engine_order) ==
    \/ a.display_order < b.display_order
    \/ a.display_order = b.display_order /\ a.vote_count > b.vote_count
    \/ /\ a.display_order = b.display_order
       /\ a.vote_count = b.vote_count
       /\ IF engine_order = "rowid" THEN a.id < b.id ELSE a.id > b.id

\* The 'definitions' list without the filter on display_on_main.
MainPageDefinitionsUnfiltered(tbl, engine_order) ==
    LET Before(a, b) == DefinitionShownBefore(a, b, engine_order)
        shown == SortSeq(tbl, Before)
    IN SubSeq(shown, 1, Min(DefinitionLimit, Len(shown)))

\* The 'definitions' list of get_main_page_content().
MainPageDefinitions(tbl, engine_order) ==
    LET OnMain(r) == r.display_on_main
        Before(a, b) == DefinitionShownBefore(a, b, engine_order)
        shown == SortSeq(SelectSeq(tbl, OnMain), Before)
    IN SubSeq(shown, 1, Min(DefinitionLimit, Len(shown)))

\* ORDER BY mention_count DESC
OvertonShownBefore(a, b, engine_order) ==
    \/ a.mention_count > b.mention_count
    \/ /\ a.mention_count = b.mention_count
       /\ IF engine_order = "rowid" THEN a.id < b.id ELSE a.id > b.id

\* The 'overton' list of get_main_page_content().
MainPageOvertonTerms(tbl, engine_order) ==
    LET OnMainActive(r) == r.display_on_main /\ r.status = "active"
        Before(a, b) == OvertonShownBefore(a, b, engine_order)
        shown == SortSeq(SelectSeq(tbl, OnMainActive), Before)
    IN SubSeq(shown, 1, Min(OvertonLimit, Len(shown)))

\* get_main_page_content(): three SELECTs, nothing written.
ReadMainPageContent(engine_order) ==
    /\ last_read' =
          [query |-> "get_main_page_content",
           insights |-> GetMainPageContent(latest_insights, engine_order),
           definitions |-> MainPageDefinitions(definitions, engine_order),
           overton |-> MainPageOvertonTerms(overton_terms, engine_order)]
    /\ UNCHANGED <<promo, last_run, agg_cycle, scan_state, scoreVars, engineVars, newsletterVars, episodeVars,
                   insightVars, termVars>>

\* SELECT MAX(date) FROM daily_scores, else today.
LatestScoreDate(table, d) ==
    IF table = {} THEN d
    ELSE CHOOSE m \in {r.date : r \in table} :
             \A r \in table : r.date <= m

\* ORDER BY rank, total_score DESC
ScoreListedBefore(a, b) ==
    \/ a.rank < b.rank
    \/ a.rank = b.rank /\ a.total_score > b.total_score

\* get_daily_scores(score_date): use_latest stands for score_date = None;
\* rows is the result of the SELECT, rows equal under the ORDER BY in any
\* order.  Nothing is written.
ReadDailyScores(use_latest, score_date, rows) ==
    LET on_date == IF use_latest THEN LatestScoreDate(daily_scores, today)
                   ELSE score_date
    IN /\ rows \in Orderings({r \in daily_scores : r.date = on_date})
       /\ \A i, j \in DOMAIN rows :
             i < j => ~ScoreListedBefore(rows[j], rows[i])
       /\ last_read' = [query |-> "get_daily_scores", score_date |-> on_date,
                        results |-> rows]
       /\ UNCHANGED <<promo, last_run, agg_cycle, scan_state, scoreVars, engineVars, newsletterVars,
                      episodeVars, insightVars, termVars>>

(***************************************************************************)
(* SpecExport: a seeded database takes nine episodes (each once the        *)
(* earlier ones are promoted, the first two with a ticker mention), a      *)
(* term scan, curation, auto-archiving, aggregation and a restore; the     *)
(* export reads run last.                                                  *)
(***************************************************************************)
MaxExportTranscripts == 9

ExportTranscript(i) ==
    TranscriptFile(ToString(i), 600, "pod1", <<"e", ToString(i)>>,
                   ToString(i), 0)

ExportAnalysis(i) ==
    Analysis(<<"e", ToString(i)>>, 990 + i,
             IF i <= 2
             THEN <<AnalysisMention(IF i = 1 THEN "NVDA" ELSE "TSLA", 50,
                                    "bullish", "medium_term")>>
             ELSE <<>>)

\* seed_database: an archived definition with many votes, then ten on the
\* main page.
ExportDefinitions ==
    [i \in 1..(DefinitionLimit + 1) |->
        IF i = 1
        THEN [DefinitionRow(1, "memestock", 700, 40) EXCEPT
                !.display_on_main = FALSE,
                !.archived_date = 880,
                !.archived_reason = "mainstream"]
        ELSE DefinitionRow(i, ToString(i), 900, 30 - i)]

\* seed_database: an archived term, then nine active ones on the main page.
ExportOvertonTerms ==
    [i \in 1..(OvertonLimit + 2) |->
        IF i = 1
        THEN [OvertonRow(1, "spac", 700, 50, "archived", FALSE) EXCEPT
                !.archived_date = 880,
                !.archived_reason = "cycle"]
        ELSE OvertonRow(i, ToString(i), 990, 20 - i, "active", TRUE)]

InitExport ==
    /\ InitScoring
    /\ today = 1000
    /\ tie_order = <<"NVDA", "TSLA">>
    /\ InitNewsletters
    /\ InitEpisodes
    /\ InitInsightsEmpty
    /\ suggested_terms = SeededSuggestedTerms
    /\ definitions = ExportDefinitions
    /\ overton_terms = ExportOvertonTerms
    /\ last_curation = NoCuration
    /\ InitRunIdle

NextExport ==
    \/ /\ last_read = NoRead
       /\ \/ /\ Len(podcast_episodes) < MaxExportTranscripts
             /\ EpisodeQueue(podcast_episodes, latest_insights) = <<>>
             /\ ProcessTranscriptFile(
                    ExportTranscript(Len(podcast_episodes) + 1),
                    ExportAnalysis(Len(podcast_episodes) + 1))
          \/ PromoteEpisodesToInsights
          \/ AggregateScores
          \/ AutoArchiveContent
          \/ /\ \A i \in DOMAIN suggested_terms :
                   suggested_terms[i].mention_count < MaxScanMentions
             /\ ScanContentForTerms("stablecoin", 2)
          \/ AutoCurateTerms
          \/ \E item_id \in ManualIds : RestoreItem("insights", item_id)
    \/ \E engine_order \in EngineOrders : ReadMainPageContent(engine_order)
    \/ \E use_latest \in BOOLEAN, score_date \in {999, 1000},
          rows \in Orderings({r \in daily_scores :
                                 r.date \in {999, 1000}}) :
          ReadDailyScores(use_latest, score_date, rows)

SpecExport == InitExport /\ [][NextExport]_vars

StoredTables ==
    <<daily_scores, latest_insights, definitions, overton_terms,
      ticker_mentions>>

ExtractionFiles ==
    {TranscriptFile("x1", 600, "pod1", TitleLongX, "", 0),
     TranscriptFile("x2", 600, "pod2", TitleLongY, "", 0)}

ExtractionAnalyses ==
    {NoAnalysis,
     Analysis(TitleA, 2, <<AnalysisMention("NVDA", 50, "bullish", "medium_term")>>),
     Analysis(TitleB, 2, <<AnalysisMention("NVDA", 50, "bullish", "medium_term"),
                           MalformedMention("TSLA")>>),
     Analysis(TitleB, 2, <<AnalysisMention("NVDA", 50, "bullish", "medium_term"),
                           NotAnObject,
                           AnalysisMention("TSLA", 50, "bullish", "medium_term")>>)}

NextExtraction ==
    \/ \E f \in ExtractionFiles, analysis \in ExtractionAnalyses :
          ProcessTranscriptFile(f, analysis)
    \/ AggregateScores

SpecExtraction == InitIngest /\ [][NextExtraction]_vars

\* C17 (as stated): an extraction that fails or returns a malformed entry
\* in ticker_mentions leaves no episode row and no mention row: no stored
\* row carries the title that only the malformed answers give.
C17_AsStated ==
    /\ \A i \in DOMAIN podcast_episodes :
          podcast_episodes[i].episode_title # TitleB
    /\ \A i \in DOMAIN ticker_mentions :
          ticker_mentions[i].episode_title # TitleB

(***************************************************************************)
(* auto_pipeline.main() in --analyze-only mode, as one action: transcript  *)
(* analysis, newsletter import, both promotions, aggregation, term         *)
(* curation and the decision to notify.  Fetching (curate.py,              *)
(* fetch_latest.py, ingest.py) is left to SaveEmail and to the batch, the  *)
(* transcript files found with the answer the AI gives for each.           *)
(***************************************************************************)
\* process_transcript_file on the tables of st; processed counts the calls
\* that returned an episode id, as process_all_transcripts does.
ProcessTranscript(st, f, analysis, d) ==
    IF f.stem \in st.processed_markers \/ f.length < MinTranscriptLen
    THEN st
    ELSE IF EpisodeExistsInDb(st.podcast_episodes, f.podcast_name,
                              Prefix(f.first_line, FirstLineLimit), f.rss_guid)
    THEN [st EXCEPT !.processed_markers = @ \cup {f.stem}]
    ELSE IF ~analysis.ok
    THEN st
    ELSE IF EpisodeExistsInDb(st.podcast_episodes, f.podcast_name,
                              analysis.episode_title, f.rss_guid)
    THEN [st EXCEPT !.processed_markers = @ \cup {f.stem}]
    ELSE LET left == \E i \in DOMAIN analysis.ticker_mentions :
                         LeavesFunction(analysis.ticker_mentions[i])
         IN [podcast_episodes |->
                 Append(st.podcast_episodes,
                        EpisodeRow(f, analysis, Len(st.podcast_episodes) + 1,
                                   d)),
             ticker_mentions |->
                 InsertMentions(st.ticker_mentions,
                                EpisodeMentions(f, analysis), d),
             processed_markers |->
                 IF left THEN st.processed_markers
                 ELSE st.processed_markers \cup {f.stem},
             processed |-> IF left THEN st.processed ELSE st.processed + 1]

\* process_all_transcripts(): batch is the sequence of <<file, analysis>>.
RECURSIVE ProcessAllTranscripts(_, _, _)
ProcessAllTranscripts(st, batch, d) ==
    IF batch = <<>> THEN st
    ELSE ProcessAllTranscripts(
             ProcessTranscript(st, Head(batch)[1], Head(batch)[2], d),
             Tail(batch), d)

\* The condition under which main() calls send_notification.
SendsNotification(results) ==
    results.transcripts_analyzed > 0 \/ results.newsletters_imported > 0

\* main()
RunAutoPipeline(batch, files, pending_terms) ==
    LET analyzed == ProcessAllTranscripts(
                        [podcast_episodes |-> podcast_episodes,
                         ticker_mentions |-> ticker_mentions,
                         processed_markers |-> processed_markers,
                         processed |-> 0], batch, today)
        imported == ImportFiles([newsletters |-> newsletters,
                                 ticker_mentions |-> analyzed.ticker_mentions,
                                 imported |-> 0], files, today)
        inserted == PromoteEpisodes(latest_insights,
                                    EpisodeQueue(analyzed.podcast_episodes,
                                                 latest_insights), today)
        evicted == AutoArchive(inserted, today)
        scores == ComputeScores(imported.ticker_mentions, today, tie_order)
        curated == CurateTerms([definitions |-> definitions,
                                suggested_terms |-> suggested_terms,
                                promoted |-> 0, review_queue |-> <<>>,
                                skipped |-> 0, ok |-> FALSE],
                               pending_terms, today)
    IN /\ files \in Orderings(inbox)
       /\ pending_terms \in PendingOrders(suggested_terms)
       /\ \E rows \in Orderings(PendingNewsletters(imported.newsletters)),
             ai \in [PendingNewsletters(imported.newsletters)
                        -> {NoAiTitle, AiTitle}] :
             LET promoted == PromoteNewsletters(
                                 [insights |-> evicted,
                                  newsletters |-> imported.newsletters,
                                  inserted |-> {}],
                                 rows, ai, inbox, today)
                 results ==
                     [transcripts_analyzed |-> analyzed.processed,
                      newsletters_imported |-> imported.imported,
                      insights_promoted |->
                          Len(inserted) - Len(latest_insights)
                              + Cardinality(promoted.inserted),
                      scores |-> Len(scores)]
             IN /\ latest_insights' = promoted.insights
                /\ newsletters' = promoted.newsletters
                /\ promoted_since' = promoted.inserted
                /\ last_returned' =
                      [call |-> "newsletters",
                       promoted |-> Cardinality(promoted.inserted),
                       archived |-> 0]
                /\ last_run' = [ran |-> TRUE, results |-> results,
                                notified |-> SendsNotification(results)]
       /\ podcast_episodes' = analyzed.podcast_episodes
       /\ processed_markers' = analyzed.processed_markers
       /\ ticker_mentions' = imported.ticker_mentions
       /\ daily_scores' = SaveDailyScores(daily_scores, scores)
       /\ agg_runs' = IF imported.ticker_mentions = ticker_mentions
                      THEN Min(agg_runs + 1, 2) ELSE 1
       /\ definitions' = curated.definitions
       /\ suggested_terms' = curated.suggested_terms
       /\ last_curation' =
             IF pending_terms = <<>>
             THEN [ran |-> TRUE, promoted |-> 0, review |-> 0, skipped |-> 0]
             ELSE [ran |-> TRUE, promoted |-> curated.promoted,
                   review |-> Len(curated.review_queue),
                   skipped |-> curated.skipped,
                   review_terms |-> curated.review_queue]
       /\ UNCHANGED <<inbox, overton_terms, engineVars, last_read, promo, agg_cycle, scan_state>>

(***************************************************************************)
(* SpecRun: runs of main() over transcript batches whose analysis fails,   *)
(* names a ticker or names none, with newsletters arriving in between.     *)
(***************************************************************************)
RunFiles ==
    {TranscriptFile("r1", 600, "pod1", TitleLongX, "", 0),
     TranscriptFile("r2", 600, "pod1", TitleLongY, "", 0)}

RunAnalyses ==
    {NoAnalysis,
     Analysis(TitleA, 2, <<AnalysisMention("NVDA", 50, "bullish", "medium_term")>>),
     Analysis(TitleB, 2, <<>>)}

RunBatches ==
    {<<>>} \cup {<<<<f, a>>>> : f \in RunFiles, a \in RunAnalyses}

NextRun ==
    \/ /\ Cardinality(inbox) < Len(ArrivingEmails)
       /\ Len(newsletters) = Cardinality(inbox)
       /\ SaveEmail(ArrivingEmails[Cardinality(inbox) + 1])
    \/ \E batch \in RunBatches, files \in Orderings(inbox),
          pending_terms \in PendingOrders(suggested_terms) :
          RunAutoPipeline(batch, files, pending_terms)

SpecRun == InitIngest /\ [][NextRun]_vars

\* C18 (as stated): a run of main() sends a notification only when the
\* aggregation returned a count of scored tickers greater than 0.
C18_AsStated ==
    (last_run.ran /\ last_run.notified) => last_run.results.scores > 0

(***************************************************************************)
(* SpecTopN: one more ticker than get_top_tickers selects is mentioned     *)
(* today, each ticker with a higher conviction than the one before, and    *)
(* aggregate_scores runs at any time.                                      *)
(***************************************************************************)
MaxTopMentions == 31

TopTicker(i) == ToString(i)

TopMention(i) ==
    TickerMention(TopTicker(i), "podcast", "pod1", Title1, i, "bullish",
                  "medium_term", FALSE)

InitTopN ==
    /\ InitScoring
    /\ today = 1
    /\ tie_order = [i \in 1..(MaxTopMentions + 1) |-> TopTicker(i)]
    /\ InitNewsletters
    /\ InitEpisodes
    /\ InitInsightsEmpty
    /\ InitTermsEmpty
    /\ InitRunIdle

NextTopN ==
    \/ /\ Len(ticker_mentions) < MaxTopMentions
       /\ AddTickerMention(TopMention(Len(ticker_mentions) + 1))
    \/ AggregateScores

SpecTopN == InitTopN /\ [][NextTopN]_vars

\* C19 (as stated): once an aggregation cycle for today has completed, the
\* daily_scores rows of today are exactly the rows that cycle computed; no
\* row of an earlier cycle for a ticker outside the selection survives.
C19_AsStated ==
    agg_runs >= 1 =>
        {r \in daily_scores : r.date = today}
            = Range(ComputeScores(ticker_mentions, today, tie_order))

(***************************************************************************)
(* Conviction buckets of the rows aggregate_scores wrote (SpecScore)       *)
(***************************************************************************)
\* The bucket of a mean conviction given as the pair (sum, count): 'high'
\* from 70, 'medium' from 40 up to 70, 'low' below 40.
BucketOfMean(conviction_sum, conviction_n) ==
    IF conviction_sum >= 70 * conviction_n THEN "high"
    ELSE IF conviction_sum >= 40 * conviction_n THEN "medium"
    ELSE "low"

\* C21 (as stated): for every ticker scored by aggregate_scores,
\* conviction_level is 'high' exactly when the mean conviction_score of its
\* mentions is at least 70, 'medium' exactly when the mean is at least 40
\* and below 70, and 'low' exactly when the mean is below 40, a mean of
\* exactly 0 and negative means included.
C21_AsStated ==
    \A r \in RowsOfCycle :
        LET g == TickerGroup(ticker_mentions, today, r.ticker)
        IN  r.conviction_level =
                BucketOfMean(SumSeq([i \in DOMAIN g |-> g[i].conviction_score]),
                             Len(g))

(***************************************************************************)
(* aggregate_scores statement by statement.  get_top_tickers opens its own *)
(* connection and runs one SELECT; the two GROUP BY queries run on a       *)
(* second connection, each SELECT a read of its own (sqlite3 opens a       *)
(* transaction only before a writing statement); save_daily_scores writes  *)
(* every row on a third connection and commits when its `with` block is    *)
(* left, or rolls back when the block raises.  Another process can commit  *)
(* between any two of these statements, but not while the write            *)
(* transaction of save_daily_scores holds the database lock.               *)
(***************************************************************************)
\* An aggregate_scores call can begin when none is in progress.
CycleAtRest == agg_cycle.pc \in {"idle", "returned", "raised"}

\* sentiment_by_ticker as built from the rows of GROUP BY ticker, sentiment.
SentimentByTicker(tbl, d) ==
    [t \in {r.ticker : r \in Range(MentionsOn(tbl, d))} |-> SentimentCounts(tbl, d, t)]

\* timeframe_by_ticker as built from the rows of GROUP BY ticker, timeframe.
TimeframeByTicker(tbl, d) ==
    [t \in {r.ticker : r \in Range(MentionsOn(tbl, d))} |-> TimeframeItems(tbl, d, t)]

\* INSERT OR REPLACE of one row.
UpsertScore(table, score) == {r \in table : ~SameKey(r, score)} \cup {score}

\* A rollback that keeps what the transaction wrote so far.
RollbackKeepingWrites(committed, txn) == txn

\* conn.rollback(): the database stays as last committed.
Rollback(committed, txn) == committed

\* conn.commit(): the rows of the transaction become the database.
Commit(committed, txn) == txn

\* today = date.today(); top_tickers = db.get_top_tickers(today, 30)
ReadTopTickers ==
    /\ CycleAtRest
    /\ agg_cycle' =
          [pc |-> "sentiment", date |-> today,
           top_tickers |-> GetTopTickers(ticker_mentions, today, TopLimit, tie_order)]
    /\ UNCHANGED <<scoreVars, engineVars, newsletterVars, episodeVars,
                   insightVars, termVars, last_read, promo, last_run, scan_state>>

\* SELECT ticker, sentiment, COUNT(*) ... GROUP BY ticker, sentiment
ReadSentimentRows ==
    /\ agg_cycle.pc = "sentiment"
    /\ agg_cycle' =
          [pc |-> "timeframe", date |-> agg_cycle.date,
           top_tickers |-> agg_cycle.top_tickers,
           sentiment_by_ticker |-> SentimentByTicker(ticker_mentions, agg_cycle.date)]
    /\ UNCHANGED <<scoreVars, engineVars, newsletterVars, episodeVars,
                   insightVars, termVars, last_read, promo, last_run, scan_state>>

\* SELECT ticker, timeframe, COUNT(*) ... GROUP BY ticker, timeframe
ReadTimeframeRows ==
    /\ agg_cycle.pc = "timeframe"
    /\ agg_cycle' =
          [pc |-> "score", date |-> agg_cycle.date,
           top_tickers |-> agg_cycle.top_tickers,
           sentiment_by_ticker |-> agg_cycle.sentiment_by_ticker,
           timeframe_by_ticker |-> TimeframeByTicker(ticker_mentions, agg_cycle.date),
           scores |-> <<>>]
    /\ UNCHANGED <<scoreVars, engineVars, newsletterVars, episodeVars,
                   insightVars, termVars, last_read, promo, last_run, scan_state>>

\* One pass of `for i, row in enumerate(top_tickers, 1)`.
ScoreNextTicker ==
    /\ agg_cycle.pc = "score"
    /\ Len(agg_cycle.scores) < Len(agg_cycle.top_tickers)
    /\ LET i == Len(agg_cycle.scores) + 1
           row == agg_cycle.top_tickers[i]
           score == BuildScore(row, i,
                               DictGet(agg_cycle.sentiment_by_ticker, row.ticker, <<>>),
                               DictGet(agg_cycle.timeframe_by_ticker, row.ticker, <<>>),
                               agg_cycle.date)
       IN agg_cycle' = [agg_cycle EXCEPT !.scores = Append(@, score)]
    /\ UNCHANGED <<scoreVars, engineVars, newsletterVars, episodeVars,
                   insightVars, termVars, last_read, promo, last_run, scan_state>>

\* A pass of the loop raises.  The loop has no handler and neither has
\* aggregate_scores, so the exception leaves the call: save_daily_scores is
\* not reached.
ScoreTickerRaises ==
    /\ agg_cycle.pc = "score"
    /\ Len(agg_cycle.scores) < Len(agg_cycle.top_tickers)
    /\ agg_cycle' =
          [pc |-> "raised", at |-> "score", date |-> agg_cycle.date,
           top_tickers |-> agg_cycle.top_tickers,
           failing |-> agg_cycle.top_tickers[Len(agg_cycle.scores) + 1].ticker]
    /\ UNCHANGED <<scoreVars, engineVars, newsletterVars, episodeVars,
                   insightVars, termVars, last_read, promo, last_run, scan_state>>

\* db.save_daily_scores(scores): the connection is opened.
BeginSaveDailyScores ==
    /\ agg_cycle.pc = "score"
    /\ Len(agg_cycle.scores) = Len(agg_cycle.top_tickers)
    /\ agg_cycle' =
          [pc |-> "save", date |-> agg_cycle.date, scores |-> agg_cycle.scores,
           written |-> 0, before |-> daily_scores, txn |-> daily_scores]
    /\ UNCHANGED <<scoreVars, engineVars, newsletterVars, episodeVars,
                   insightVars, termVars, last_read, promo, last_run, scan_state>>

\* One conn.execute("INSERT OR REPLACE INTO daily_scores ...").
WriteScoreRow ==
    /\ agg_cycle.pc = "save"
    /\ agg_cycle.written < Len(agg_cycle.scores)
    /\ agg_cycle' =
          [agg_cycle EXCEPT !.written = @ + 1,
                            !.txn = UpsertScore(@, agg_cycle.scores[agg_cycle.written + 1])]
    /\ UNCHANGED <<scoreVars, engineVars, newsletterVars, episodeVars,
                   insightVars, termVars, last_read, promo, last_run, scan_state>>

\* The conn.execute of one row raises: _get_connection rolls back and
\* raises again.
WriteScoreRowRaises ==
    /\ agg_cycle.pc = "save"
    /\ agg_cycle.written < Len(agg_cycle.scores)
    /\ daily_scores' = Rollback(daily_scores, agg_cycle.txn)
    /\ agg_cycle' =
          [pc |-> "raised", at |-> "save", date |-> agg_cycle.date,
           scores |-> agg_cycle.scores, written |-> agg_cycle.written,
           before |-> agg_cycle.before]
    /\ UNCHANGED <<ticker_mentions, agg_runs, engineVars, newsletterVars,
                   episodeVars, insightVars, termVars, last_read, promo, last_run, scan_state>>

\* The `with` block is left: conn.commit(), and aggregate_scores returns
\* len(scores).
CommitDailyScores ==
    /\ agg_cycle.pc = "save"
    /\ agg_cycle.written = Len(agg_cycle.scores)
    /\ daily_scores' = Commit(daily_scores, agg_cycle.txn)
    /\ agg_runs' = Min(agg_runs + 1, 2)
    /\ agg_cycle' =
          [pc |-> "returned", date |-> agg_cycle.date,
           scores |-> agg_cycle.scores, before |-> agg_cycle.before]
    /\ UNCHANGED <<ticker_mentions, engineVars, newsletterVars,
                   episodeVars, insightVars, termVars, last_read, promo, last_run, scan_state>>

\* The write transaction of save_daily_scores holds the database lock.
WriteLockHeld == agg_cycle.pc = "save" /\ agg_cycle.written > 0

(***************************************************************************)
(* SpecCycle: an ingestion process writes mentions while aggregate_scores  *)
(* runs statement by statement, any number of times.                       *)
(***************************************************************************)
MaxCycleMentions == 3

CycleInputs ==
    {TickerMention("NVDA", "podcast", "src1", Title1, 50, "bullish", "short_term", FALSE),
     TickerMention("NVDA", "podcast", "src2", Title2, 0 - 25, "bearish", "long_term", FALSE),
     TickerMention("TSLA", "newsletter", "src1", Title3, 0, "neutral", "unspecified", FALSE),
     TickerMention("TSLA", "podcast", "src2", Title1, 50, "bullish", "short_term", FALSE)}

NextCycle ==
    \/ /\ Len(ticker_mentions) < MaxCycleMentions
       /\ ~WriteLockHeld
       /\ \E m \in CycleInputs : AddTickerMention(m)
    \/ ReadTopTickers
    \/ ReadSentimentRows
    \/ ReadTimeframeRows
    \/ ScoreNextTicker
    \/ ScoreTickerRaises
    \/ BeginSaveDailyScores
    \/ WriteScoreRow
    \/ WriteScoreRowRaises
    \/ CommitDailyScores

SpecCycle == InitScenarioA /\ [][NextCycle]_vars

\* C22 (as stated): when a mention is written concurrently with an
\* aggregation run, every daily_scores row the run writes is computed from
\* one snapshot of the mentions: the score and count fields and the
\* contrarian_signal and timeframe fields of a row all come from the same
\* set of mentions (the mentions table as it stood at one moment).
C22_AsStated ==
    agg_cycle.pc = "save" =>
        \A i \in DOMAIN agg_cycle.scores :
            \E n \in 0..Len(ticker_mentions) :
                agg_cycle.scores[i] \in
                    Range(ComputeScores(Prefix(ticker_mentions, n),
                                        agg_cycle.date, tie_order))

\* C23: save_daily_scores writes the rows of one aggregation cycle in a
\* single transaction.  While the call runs the stored table (what a reader
\* sees) stays as it was before the call; the one step that changes it puts
\* all rows of the cycle in place at once; and when writing a row raises the
\* table is left exactly as it was before the call.
C23_SingleTransaction ==
    [][agg_cycle.pc = "save" =>
          /\ daily_scores = agg_cycle.before
          /\ \/ daily_scores' = agg_cycle.before
             \/ /\ agg_cycle'.pc = "returned"
                /\ daily_scores' = SaveDailyScores(agg_cycle.before, agg_cycle.scores)
          /\ agg_cycle'.pc = "raised" => daily_scores' = agg_cycle.before]_vars

\* A cycle of two rows, the first one replacing a stored row, was rolled
\* back after its first row had been written.
C23_Witness ==
    /\ agg_cycle.pc = "raised"
    /\ agg_cycle.at = "save"
    /\ agg_cycle.written = 1
    /\ Len(agg_cycle.scores) = 2
    /\ agg_cycle.scores[1] \notin agg_cycle.before
    /\ \E r \in agg_cycle.before : SameKey(r, agg_cycle.scores[1])
    /\ daily_scores = agg_cycle.before

\* C24 (as stated): if computing the score of one ticker raises during an
\* aggregation cycle, the failing ticker is skipped and the rows of all
\* other tickers of that date are still computed and saved.
C24_AsStated ==
    (agg_cycle.pc = "raised" /\ agg_cycle.at = "score") =>
        \A i \in DOMAIN agg_cycle.top_tickers :
            agg_cycle.top_tickers[i].ticker # agg_cycle.failing =>
                \E r \in daily_scores :
                    /\ r.ticker = agg_cycle.top_tickers[i].ticker
                    /\ r.date = agg_cycle.date
                    /\ r.total_score = agg_cycle.top_tickers[i].total_score

(***************************************************************************)
(* SpecIdentity: a podcast that reuses its episode title ("Aa") and one    *)
(* whose titles agree on the first 50 characters; every file carries an    *)
(* rss_guid of its own except the last.                                    *)
(***************************************************************************)
IdentityFiles ==
    {TranscriptFile("weekly_1", 600, "pod1", TitleA, "guid1", 0),
     TranscriptFile("weekly_2", 600, "pod1", TitleA, "guid2", 0),
     TranscriptFile("part_x", 600, "pod1", TitleLongX, "guid3", 0),
     TranscriptFile("part_y", 600, "pod1", TitleLongY, "guid4", 0),
     TranscriptFile("no_sidecar", 600, "pod1", TitleB, "", 0)}

IdentityAnalyses ==
    {NoAnalysis,
     Analysis(TitleA, 2, <<AnalysisMention("NVDA", 50, "bullish", "medium_term")>>),
     Analysis(TitleB, 2, <<AnalysisMention("TSLA", 50, "bearish", "medium_term")>>),
     Analysis(TitleLongY, 2, <<>>)}

NextIdentity ==
    \E f \in IdentityFiles, analysis \in IdentityAnalyses :
        ProcessTranscriptFile(f, analysis)

SpecIdentity == InitIngest /\ [][NextIdentity]_vars

\* C25 (as stated): the duplicate check reaches the title checks only for an
\* item without external identity, so a file that carries a non-empty
\* rss_guid is skipped as a duplicate (marked processed with no episode row
\* added) only when a stored episode carries that rss_guid, also when a
\* stored episode of the same podcast has the same title or the same first
\* 50 title characters.
C25_AsStated ==
    [][\A f \in IdentityFiles :
          (/\ f.rss_guid # ""
           /\ f.stem \notin processed_markers
           /\ f.stem \in processed_markers'
           /\ podcast_episodes' = podcast_episodes)
          => \E i \in DOMAIN podcast_episodes :
                podcast_episodes[i].rss_guid = f.rss_guid]_vars

(***************************************************************************)
(* The manual archive command: archive_manager.archive_item, which maps    *)
(* the plural item type to the singular one of DashboardDB.archive_item.   *)
(***************************************************************************)
ManualReason == "manual"

ArchiveItem(item_type, item_id, reason) ==
    /\ latest_insights' =
          IF item_type = "insights"
          THEN ArchiveRows(latest_insights, {item_id}, today, reason)
          ELSE latest_insights
    /\ definitions' =
          IF item_type = "definitions"
          THEN ArchiveRows(definitions, {item_id}, today, reason)
          ELSE definitions
    /\ overton_terms' =
          IF item_type = "overton"
          THEN [i \in DOMAIN overton_terms |->
                  IF overton_terms[i].id = item_id
                  THEN [overton_terms[i] EXCEPT !.display_on_main = FALSE,
                                                !.status = "archived",
                                                !.archived_date = today,
                                                !.archived_reason = reason]
                  ELSE overton_terms[i]]
          ELSE overton_terms
    /\ UNCHANGED <<last_returned, promoted_since, suggested_terms,
                   last_curation, scoreVars, engineVars, newsletterVars,
                   episodeVars, runVars>>

(***************************************************************************)
(* SpecRestore: nine episodes arrive, each once the earlier ones are        *)
(* promoted, a later one with a later date; the operator archives and      *)
(* restores items 1 and 2 of each kind at any time.                        *)
(***************************************************************************)
MaxRestoreTranscripts == 9
RestoreIds == {1, 2}

RestoreTranscript(i) ==
    TranscriptFile(ToString(i), 600, "pod1", <<"e", ToString(i)>>, ToString(i), 0)

RestoreAnalysis(i) == Analysis(<<"e", ToString(i)>>, 980 + i, <<>>)

InitRestore ==
    /\ InitScoring
    /\ today = 1000
    /\ tie_order = <<"NVDA", "TSLA">>
    /\ InitNewsletters
    /\ InitEpisodes
    /\ InitInsightsEmpty
    /\ suggested_terms = <<>>
    /\ definitions = SeededDefinitions
    /\ overton_terms = SeededOvertonTerms
    /\ last_curation = NoCuration
    /\ InitRunIdle

NextRestore ==
    \/ /\ Len(podcast_episodes) < MaxRestoreTranscripts
       /\ EpisodeQueue(podcast_episodes, latest_insights) = <<>>
       /\ ProcessTranscriptFile(RestoreTranscript(Len(podcast_episodes) + 1),
                                RestoreAnalysis(Len(podcast_episodes) + 1))
    \/ PromoteEpisodesToInsights
    \/ \E item_type \in ItemTypes, item_id \in RestoreIds :
          ArchiveItem(item_type, item_id, ManualReason)
    \/ \E item_type \in ItemTypes, item_id \in RestoreIds :
          RestoreItem(item_type, item_id)

SpecRestore == InitRestore /\ [][NextRestore]_vars

\* The rows of a table that a step changed, all of them carrying item_id
\* and differing from before in display_on_main (now 1) only.
OnlyRestored(old, new, item_id) ==
    /\ Len(new) = Len(old)
    /\ \A i \in DOMAIN old :
          \/ new[i] = old[i]
          \/ /\ old[i].id = item_id
             /\ new[i] = [old[i] EXCEPT !.display_on_main = TRUE]

\* C26: restore_item changes only the targeted row: it sets that row's
\* display_on_main to 1 (and, for an emergent term, its status to 'active'),
\* archives or evicts no other item, also when the restore brings the number
\* of active insights above 8, and leaves every other row of every table
\* unchanged.
C26_RestoreFrame ==
    [][\A item_type \in ItemTypes, item_id \in RestoreIds :
          RestoreItem(item_type, item_id) =>
             /\ IF item_type = "insights"
                THEN /\ OnlyRestored(latest_insights, latest_insights', item_id)
                     /\ \A i \in DOMAIN latest_insights :
                           latest_insights[i].id = item_id =>
                              latest_insights'[i].display_on_main
                ELSE latest_insights' = latest_insights
             /\ IF item_type = "definitions"
                THEN /\ OnlyRestored(definitions, definitions', item_id)
                     /\ \A i \in DOMAIN definitions :
                           definitions[i].id = item_id =>
                              definitions'[i].display_on_main
                ELSE definitions' = definitions
             /\ IF item_type = "overton"
                THEN /\ Len(overton_terms') = Len(overton_terms)
                     /\ \A i \in DOMAIN overton_terms :
                           IF overton_terms[i].id = item_id
                           THEN overton_terms'[i] =
                                   [overton_terms[i] EXCEPT
                                       !.display_on_main = TRUE,
                                       !.status = "active"]
                           ELSE overton_terms'[i] = overton_terms[i]
                ELSE overton_terms' = overton_terms
             /\ UNCHANGED <<suggested_terms, podcast_episodes, newsletters,
                            ticker_mentions, daily_scores>>]_vars

\* Eight insights are active and unarchived and a ninth, archived before,
\* is back on the main page: nine active rows.
C26_Witness ==
    /\ ActiveCount(latest_insights) = MainPageK + 1
    /\ \E i \in DOMAIN latest_insights :
          /\ latest_insights[i].display_on_main
          /\ latest_insights[i].archived_date # 0
    /\ \E i \in DOMAIN overton_terms :
          /\ overton_terms[i].archived_date # 0
          /\ overton_terms[i].status = "active"

\* C29 (as stated): after promote_episodes_to_insights returns, at most 8
\* insights have display_on_main = 1, also when some of the active insights
\* were archived before and brought back by restore_item: restored insights
\* are counted and evicted like any other active insight.
C29_AsStated ==
    [][PromoteEpisodesToInsights =>
          ActiveCount(latest_insights') <= MainPageK]_vars

(***************************************************************************)
(* Reprocessing of an episode: fix_ticker_mentions.fix_episode.  The       *)
(* key_tickers column it also updates is not part of the model's           *)
(* podcast_episodes rows.  The entries of the analysis are JSON objects    *)
(* with fields of the expected types.                                      *)
(***************************************************************************)
UnknownPodcast == "Unknown Podcast"

\* FILENAME_TO_PODCAST.get(stem, current_podcast), for the stems of the model.
FilenameToPodcast(stem, current_podcast) ==
    IF stem = "fix1" THEN "pod1" ELSE current_podcast

\* tm.get('ticker', '').strip().upper(), on the tickers of the model.
StripUpper(ticker) ==
    CASE ticker = "nvda" -> "NVDA"
      [] ticker = " TSLA " -> "TSLA"
      [] OTHER -> ticker

\* The values of sentiment and timeframe fix_episode lets through.
FixSentiment(sentiment) ==
    IF sentiment \in {"bullish", "bearish", "neutral"} THEN sentiment ELSE "neutral"

FixTimeframe(timeframe) ==
    IF timeframe \in {"short_term", "long_term", "unspecified"}
    THEN timeframe ELSE "unspecified"

\* max(-100, min(100, conviction))
FixConviction(conviction_score) ==
    IF conviction_score > 100 THEN 100
    ELSE IF conviction_score < 0 - 100 THEN 0 - 100
    ELSE conviction_score

\* The row of the INSERT of fix_episode.  The statement names no
\* weighted_score, so the row takes the default of the column: NULL or 0,
\* nothing for SUM(weighted_score) to add (0 in the model's rows).
FixMentionRow(tm, podcast_name, episode_title, d) ==
    [ticker |-> StripUpper(tm.ticker), source_type |-> "podcast",
     source_name |-> podcast_name, episode_title |-> episode_title,
     conviction_score |-> FixConviction(tm.conviction_score),
     sentiment |-> FixSentiment(tm.sentiment),
     timeframe |-> FixTimeframe(tm.timeframe),
     is_disruption_focused |-> tm.is_disruption_focused,
     weighted_score |-> 0,
     mention_date |-> d]

\* The entries fix_episode inserts: those with a ticker (the model's
\* tickers are all shorter than 10 characters).
FixMentions(mentions, podcast_name, episode_title, d) ==
    LET kept == SelectSeq(mentions, LAMBDA tm : StripUpper(tm.ticker) # "")
    IN [i \in DOMAIN kept |-> FixMentionRow(kept[i], podcast_name, episode_title, d)]

\* fix_episode(conn, episode_id, stem, transcript_path, client), where
\* mentions is the ticker_mentions list analyze_for_tickers returns.
FixEpisode(episode_id, stem, mentions) ==
    /\ IF \A i \in DOMAIN podcast_episodes : podcast_episodes[i].id # episode_id
       THEN UNCHANGED <<episodeVars, scoreVars>>
       ELSE LET ep == podcast_episodes[CHOOSE i \in DOMAIN podcast_episodes :
                                          podcast_episodes[i].id = episode_id]
                correct_podcast == FilenameToPodcast(stem, ep.podcast_name)
                others == SelectSeq(ticker_mentions,
                                    LAMBDA r : r.episode_title # ep.episode_title)
            IN /\ podcast_episodes' =
                     [i \in DOMAIN podcast_episodes |->
                         IF /\ podcast_episodes[i].id = episode_id
                            /\ ep.podcast_name = UnknownPodcast
                         THEN [podcast_episodes[i] EXCEPT
                                  !.podcast_name = correct_podcast]
                         ELSE podcast_episodes[i]]
               /\ ticker_mentions' =
                     others \o FixMentions(mentions, correct_podcast,
                                           ep.episode_title, today)
               /\ agg_runs' = IF ticker_mentions' = ticker_mentions
                              THEN agg_runs ELSE 0
               /\ UNCHANGED <<processed_markers, daily_scores>>
    /\ UNCHANGED <<engineVars, newsletterVars, insightVars, termVars, runVars>>

(***************************************************************************)
(* SpecFix: two transcripts are ingested, one under 'Unknown Podcast', and *)
(* the fix script reprocesses episodes 1 and 2 with any of three answers   *)
(* of its analysis.                                                        *)
(***************************************************************************)
FixFiles ==
    {TranscriptFile("fix1", 600, UnknownPodcast, TitleA, "guid1", 0),
     TranscriptFile("fix2", 600, "pod2", TitleB, "guid2", 0)}

FixAnalyses ==
    {NoAnalysis,
     Analysis(TitleA, 2, <<AnalysisMention("NVDA", 80, "bullish", "long_term")>>),
     Analysis(TitleB, 2, <<AnalysisMention("NVDA", 50, "bullish", "medium_term"),
                           AnalysisMention("TSLA", 0 - 25, "bearish", "short_term")>>)}

\* EPISODE_IDS: the stems and episode ids the script goes through.
FixTargets == {<<"fix1", 1>>, <<"fix2", 2>>}

FixMentionLists ==
    {<<>>,
     <<AnalysisMention("nvda", 75, "bullish", "long_term")>>,
     <<AnalysisMention(" TSLA ", 150, "mixed", "medium_term"),
       AnalysisMention("", 50, "neutral", "unspecified")>>}

NextFix ==
    \/ \E f \in FixFiles, analysis \in FixAnalyses :
          ProcessTranscriptFile(f, analysis)
    \/ \E target \in FixTargets, mentions \in FixMentionLists :
          FixEpisode(target[2], target[1], mentions)

SpecFix == InitIngest /\ [][NextFix]_vars

\* C27 (as stated): every ticker_mentions row, whichever path wrote it
\* (add_ticker_mention during ingestion or fix_episode during
\* reprocessing), carries weighted_score = base(source_type) x type_weight
\* x (1 + conviction_score/100).
C27_AsStated ==
    \A i \in DOMAIN ticker_mentions :
        ticker_mentions[i].weighted_score =
            WeightedScore(ticker_mentions[i].source_type,
                          ticker_mentions[i].conviction_score,
                          ticker_mentions[i].is_disruption_focused)

(***************************************************************************)
(* Newsletter import of run_pipeline.py: import_newsletters_to_db          *)
(***************************************************************************)
\* The keyword list of import_newsletters_to_db (no 'inflection point').
RunPipelineKeywords ==
    {"disruption", "disruptive", "paradigm shift", "game changer",
     "breakthrough", "transformation", "revolutionary"}

\* The mentions written for the tickers of f, with the dataclass defaults.
RunPipelineMentions(f) ==
    [i \in DOMAIN f.extracted_tickers |->
        TickerMention(f.extracted_tickers[i], "newsletter", f.sender,
                      Prefix(f.subject, MentionTitleLimit), 0, "neutral",
                      "unspecified", \E kw \in RunPipelineKeywords : kw \in f.phrases)]

\* The loop over the inbox files: every file's tickers are written.
RECURSIVE RunPipelineImport(_, _, _)
RunPipelineImport(tbl, files, d) ==
    IF files = <<>> THEN tbl
    ELSE RunPipelineImport(InsertMentions(tbl, RunPipelineMentions(Head(files)), d),
                           Tail(files), d)

\* import_newsletters_to_db(): every inbox file, in the order glob yields
\* them.
ImportNewslettersToDb ==
    \E files \in Orderings(inbox) :
        /\ ticker_mentions' = RunPipelineImport(ticker_mentions, files, today)
        /\ agg_runs' = IF ticker_mentions' = ticker_mentions THEN agg_runs ELSE 0
        /\ UNCHANGED <<inbox, newsletters, daily_scores, engineVars, episodeVars,
                       insightVars, termVars, runVars>>

(***************************************************************************)
(* SpecReimport: newsletters arrive in the inbox and either pipeline's     *)
(* import step runs at any time, any number of times.                      *)
(***************************************************************************)
MaxReimportMentions == 4

NextReimport ==
    \/ /\ Cardinality(inbox) < MaxInbox - 1
       /\ \E f \in ImportInputs : SaveEmail(f)
    \/ ImportNewsletters
    \/ /\ Len(ticker_mentions) < MaxReimportMentions
       /\ ImportNewslettersToDb

SpecReimport == InitImport /\ [][NextReimport]_vars

\* C28 (as stated): newsletter import creates mentions at most once per
\* newsletter: when the mentions of every inbox file are stored already, a
\* further run of the import step over the unchanged inbox adds no
\* ticker_mentions row.
C28_AsStated ==
    [][(/\ inbox' = inbox
        /\ \A f \in inbox :
              Cardinality(MentionsOfFile(f)) >= Len(f.extracted_tickers))
       => ticker_mentions' = ticker_mentions]_vars

(***************************************************************************)
(* scan_content_for_terms() as a whole: every finding of every stored      *)
(* source of the last 7 days (episode summaries first, then newsletter     *)
(* previews) goes through _add_or_update_term.                             *)
(***************************************************************************)
\* An item of the list extract_terms_from_content returns: a quoted term
\* with its definition (no mention_count key, so 1 is stored) or a
\* capitalized phrase found mention_count >= 2 times.
QuotedTerm(term) == [term |-> term, has_definition |-> TRUE, mention_count |-> 1]
RepeatedPhrase(term, mention_count) ==
    [term |-> term, has_definition |-> FALSE, mention_count |-> mention_count]

RECURSIVE Flatten(_)
Flatten(lists) == IF lists = <<>> THEN <<>> ELSE Head(lists) \o Flatten(Tail(lists))

RECURSIVE AddOrUpdateTerms(_, _, _)
AddOrUpdateTerms(tbl, defs, findings) ==
    IF findings = <<>> THEN tbl
    ELSE AddOrUpdateTerms(AddOrUpdateTerm(tbl, defs, Head(findings).term,
                                          Head(findings).has_definition,
                                          Head(findings).mention_count),
                          defs, Tail(findings))

\* An episode with a summary, or a newsletter with a preview, is stored;
\* findings is what extract_terms_from_content yields on its text.
StoreContent(findings) ==
    /\ scan_state' = [content |-> Append(scan_state.content, findings),
                      scanned |-> FALSE]
    /\ UNCHANGED <<scoreVars, engineVars, newsletterVars, episodeVars,
                   insightVars, termVars, last_read, promo, last_run, agg_cycle>>

\* SuggestedTermsManager.scan_content_for_terms()
ScanRecentContent ==
    /\ suggested_terms' =
          AddOrUpdateTerms(suggested_terms, definitions, Flatten(scan_state.content))
    /\ scan_state' = [scan_state EXCEPT !.scanned = TRUE]
    /\ UNCHANGED <<definitions, overton_terms, last_curation, scoreVars,
                   engineVars, newsletterVars, episodeVars, insightVars,
                   last_read, promo, last_run, agg_cycle>>

(***************************************************************************)
(* SpecRescan: up to two sources are stored, the pipeline scans them any   *)
(* number of times and auto_curate_terms runs in between.                  *)
(***************************************************************************)
MaxRescanSources == 2
MaxRescanMentions == 11

RescanSources ==
    {<<RepeatedPhrase("stablecoin", 2)>>,
     <<QuotedTerm("agentic")>>,
     <<RepeatedPhrase("stablecoin", 3), QuotedTerm("agentic")>>}

NextRescan ==
    \/ /\ Len(scan_state.content) < MaxRescanSources
       /\ \E findings \in RescanSources : StoreContent(findings)
    \/ /\ \A i \in DOMAIN suggested_terms :
             suggested_terms[i].mention_count < MaxRescanMentions
       /\ ScanRecentContent
    \/ AutoCurateTerms

SpecRescan == InitWeight /\ [][NextRescan]_vars

\* The number of stored sources in which the term was found.
SourcesWith(content, term) ==
    Cardinality({k \in DOMAIN content :
                    \E j \in DOMAIN content[k] : content[k][j].term = term})

\* C30 (as stated): a run of scan_content_for_terms over content that a scan
\* has gone through already leaves mention_count, source_diversity and
\* relevance_score of every existing suggested term as they were, so that
\* source_diversity never exceeds the number of distinct sources the term
\* was seen in.
C30_AsStated ==
    [][/\ (scan_state.scanned /\ scan_state'.scanned) =>
             \A i \in DOMAIN suggested_terms :
                /\ suggested_terms'[i].mention_count = suggested_terms[i].mention_count
                /\ suggested_terms'[i].source_diversity = suggested_terms[i].source_diversity
                /\ suggested_terms'[i].relevance_score = suggested_terms[i].relevance_score
       /\ \A i \in DOMAIN suggested_terms' :
             suggested_terms'[i].source_diversity
                <= SourcesWith(scan_state'.content, suggested_terms'[i].term)]_vars
====
